---- MODULE Spec2Model ----
(***************************************************************************)
(* tiangong: event-sourced orchestrator.                                   *)
(*   core/protocol.py       canonical encoding + CRC                       *)
(*   core/state_manager.py  append-only, idempotent event log              *)
(*   core/reducer.py        fold of the log into a Status                  *)
(*   core/orchestrator.py   the tick                                       *)
(*                                                                         *)
(* Conventions.  A Python dict key that is absent (or a falsy value, which *)
(* the code treats alike: `if task_id:`) is "" for strings, <<>> for       *)
(* idempotency keys and crc values, 0 for numbers and -1 for timestamps.   *)
(* Time is counted in minutes.  An eventId is the serial number of the     *)
(* uuid4 that was drawn for it; an idempotencyKey f"{a}:{b}:{c}" is the    *)
(* tuple <<a, b, c>> (the project prefix, the same in every key of one     *)
(* project directory, is left out).                                        *)
(***************************************************************************)
EXTENDS Integers, Sequences, FiniteSets, TLC

VARIABLES
    events,      \* audit/events.ndjson: the lines, in file order
    idIndex,     \* derived/idempotency-index.json: key -> sequenceNumber
    sequence,    \* derived/sequence.json: [exists, lastSequence]
    now,         \* the wall clock, minutes
    lastCall,    \* the latest append_event call of a client: input, result, files before
    prevCall,    \* the call before it
    statusFile,  \* status.json (<<>> until the first tick that returns)
    evidenceFiles, \* evidence/<taskId>/<runId>.md: <<taskId, runId>> in listing order
    runSeq,      \* how many run ids run_id_gen has handed out
    cfg,         \* the OrchestratorConfig
    lastTick,    \* the tick that was the latest step: outcome, log length before, time
    nTicks,      \* ticks made
    nEmits,      \* events appended by writers other than the orchestrator
    flock,       \* who holds the flock of events.ndjson.lock / status.json.lock (0: nobody)
    lockInfo,    \* the text of each lock file: <<>> or the holder record
    securityLog, \* audit/security.log: the lines, in file order
    proc,        \* each process inside append_event / write_status: position and locals
    lastMessage  \* the latest validate_incoming call: message, outcome, log length before

vars == <<events, idIndex, sequence, now, lastCall, prevCall, statusFile,
          evidenceFiles, runSeq, cfg, lastTick, nTicks, nEmits,
          flock, lockInfo, securityLog, proc, lastMessage>>

orchVars == <<statusFile, evidenceFiles, runSeq, cfg, lastTick, nTicks, nEmits>>

\* What the steps of one sequential caller leave alone.
sideVars == <<flock, lockInfo, securityLog, proc, lastMessage>>

\* ------------------------------------------------------------------ bounds
MaxCalls == 4
MaxEmitsReduce == 5
MaxEmitsDispatch == 4
MaxTicksDispatch == 2
MaxEmitsGates == 3
MaxTicksGates == 2
MaxEmitsRun == 2
MaxTicksRun == 3
MaxTime == 40
TimeStep == 10
MaxEmitsRetry == 3
MaxTicksRetry == 3
MaxRetriesConfigured == 2
MaxEmitsCorrupt == 2
MaxTicksCorrupt == 2
MaxEmitsHeartbeat == 3
MaxTicksHeartbeat == 2
HeartbeatStep == 1
MaxTimeHeartbeat == 4
NumProcs == 2
MaxCallsPerProc == 2
LockTimeoutPolls == 1
MaxEmitsValidate == 1
MaxTicksValidate == 1
MaxEmitsPermute == 3
MaxEmitsOutcome == 3
MaxTicksEvidence == 3
MaxEmitsPartial == 2
MaxCrashes == 2
MaxEmitsOverlap == 3
MaxEmitsHalt == 3
MaxEmitsClose == 1
MaxTimeClose == 60
MaxTicksHalt == 2
MaxTicksOverlap == 2
MaxTicksPartial == 2
HappyStep == 5
MaxTimeHappy == 25

\* ------------------------------------------------------- core/protocol.py

\* (mutant) the payload is left out of the encoding.
canonical_json_without_payload(event) ==
    << event.at, event.causationId, <<>>, event.eventId, event.idempotencyKey,
       event.runId, event.sequenceNumber, event.taskId, event.type >>

\* canonical_json: the event with crc32 forced to "", keys sorted
\* (at, causationId, crc32, eventId, idempotencyKey, payload, runId,
\* sequenceNumber, taskId, type), no whitespace.
canonical_json(event) ==
    << event.at, event.causationId, <<>>, event.eventId, event.idempotencyKey,
       event.payload, event.runId, event.sequenceNumber, event.taskId, event.type >>

\* zlib.crc32 of the encoded bytes, printed as 8 hex digits.  The checksum is
\* taken to be collision-free on the encodings of the model.
zlib_crc32(bytes) == <<"crc32">> \o bytes

compute_crc32(event) == zlib_crc32(canonical_json(event))

verify_crc32(event) ==
    IF event.crc32 = <<>> THEN FALSE ELSE event.crc32 = compute_crc32(event)

\* ---------------------------------------------------- core/state_manager.py

Files == [events |-> events, idIndex |-> idIndex, sequence |-> sequence]

\* (mutant) the index is never read back: every key looks new.
load_idempotency_index_forgets(f) == <<>>

\* _load_idempotency_index: {} when the file is missing, else its "keys".
load_idempotency_index(f) == f.idIndex

\* _read_last_sequence: sequence.json when it is there, else the
\* sequenceNumber of the last line of the log, else 0 (also when the last
\* line does not decode: lines 171-175).
read_last_sequence(f) ==
    IF f.sequence.exists THEN f.sequence.lastSequence
    ELSE IF f.events = <<>> THEN 0
    ELSE IF f.events[Len(f.events)].tail # <<>> THEN 0
    ELSE f.events[Len(f.events)].sequenceNumber

\* The uuid4 drawn for an event that brings no eventId: a fresh one.  Every
\* event written has registered its key, so the keys count the ids drawn
\* (the lines do not: a cut file has lost some).
fresh_event_id(f) == Cardinality(DOMAIN f.idIndex) + 1

\* The file does not end with a newline: its last line was cut.
open_tail(f) == f.events # <<>> /\ f.events[Len(f.events)].tail = <<"cut">>

\* Lines 204-209: f.write(line + "\n") in append mode.  After a cut line the
\* text lands on that line, which the newline then ends.
write_line(f, rec) ==
    IF open_tail(f)
    THEN [f.events EXCEPT ![Len(f.events)].tail = Append(@, rec)]
    ELSE Append(f.events, rec)

\* Lines 196-202: copy, setdefault eventId / sequenceNumber / at, then crc32.
fill_event(event, seq, eid, t) ==
    LET e1 == [event EXCEPT
                 !.eventId        = IF @ = 0 THEN eid ELSE @,
                 !.sequenceNumber = IF @ = 0 THEN seq ELSE @,
                 !.at             = IF @ = -1 THEN t ELSE @]
    IN [e1 EXCEPT !.crc32 = compute_crc32(e1)]

\* (mutant) the check of line 184 is left out.
key_missing_never(event) == FALSE

\* Line 184: "idempotencyKey" not in event.
key_missing(event) == event.idempotencyKey = <<>>

\* append_event on files f at time t: the files afterwards and the result.
append_event(f, event, t) ==
    IF key_missing(event)
    THEN [files |-> f, status |-> "ValueError", event |-> <<>>]
    ELSE
      LET keys == load_idempotency_index(f)
          key  == event.idempotencyKey
      IN IF key \in DOMAIN keys
         THEN [files |-> f, status |-> "deduped", event |-> <<>>]
         ELSE
           LET seq == read_last_sequence(f) + 1
               rec == fill_event(event, seq, fresh_event_id(f), t)
           IN [files  |-> [events   |-> write_line(f, rec),
                           idIndex  |-> (key :> seq) @@ keys,
                           sequence |-> [exists |-> TRUE, lastSequence |-> seq]],
               status |-> "appended",
               event  |-> <<rec>>]

\* ---- FileLock and the log of lock timeouts

\* LockInfo.to_dict: the holder record a lock file carries.
LockInfo(pid, acquired_at) == [pid |-> pid, acquiredAt |-> acquired_at]

\* _read_lock_info() or {}: the record in the lock file, <<>> when the file
\* is empty.
read_lock_info(info, path) == info[path]

\* (mutant) the flock is kept.
release_keeps(locks, path) == locks

\* FileLock.release: LOCK_UN, close.
release(locks, path) == [locks EXCEPT ![path] = 0]

\* (mutant) nothing is logged.
append_security_log_drops(log, entry) == log

\* _append_security_log: one more line of audit/security.log.
append_security_log(log, entry) == Append(log, entry)

\* json.dumps raises TypeError on a payload that is no JSON value (a set).
json_dumps_raises(event) == event.payload = "<set>"

\* An event as a caller hands it over.  tail is not a key of the event: it
\* is what else its line of the file holds, <<>> for a line as it was
\* written, <<"cut">> for a line that was cut short and <<"cut", rec>> for a
\* cut line that a later write has landed on.
NewEvent(type, taskId, runId, payload, key) ==
    [type |-> type, taskId |-> taskId, runId |-> runId, payload |-> payload,
     idempotencyKey |-> key, eventId |-> 0, sequenceNumber |-> 0, at |-> -1,
     causationId |-> 0, crc32 |-> <<>>, tail |-> <<>>]

\* --------------------------------------------------------- core/reducer.py

\* read_events: the lines that decode and verify, and the corrupted ones
\* (with their 1-based line numbers).
json_loads_ok(line) == line.tail = <<>>

read_events(lines) ==
    [events    |-> SelectSeq(lines, LAMBDA line : json_loads_ok(line) /\ verify_crc32(line)),
     corrupted |-> { i \in DOMAIN lines : ~(json_loads_ok(lines[i]) /\ verify_crc32(lines[i])) }]

\* (mutant) no event sorts before another: the lines stay as they are.
SortsBefore_never(a, b) == FALSE

\* The sort key of reduce_events: (sequenceNumber, eventId).
SortsBefore(a, b) ==
    \/ a.sequenceNumber < b.sequenceNumber
    \/ a.sequenceNumber = b.sequenceNumber /\ a.eventId < b.eventId

RECURSIVE InsertSorted(_, _)
InsertSorted(sorted, e) ==
    IF sorted = <<>> THEN <<e>>
    ELSE IF SortsBefore(e, sorted[Len(sorted)])
         THEN Append(InsertSorted(SubSeq(sorted, 1, Len(sorted) - 1), e), sorted[Len(sorted)])
         ELSE Append(sorted, e)

\* events.sort(key=...): stable.
RECURSIVE SortEvents(_)
SortEvents(evs) ==
    IF evs = <<>> THEN <<>>
    ELSE InsertSorted(SortEvents(SubSeq(evs, 1, Len(evs) - 1)), evs[Len(evs)])

RunStatus0 ==
    [started |-> FALSE, completed |-> FALSE, verdict |-> "", aborted |-> FALSE,
     failed |-> FALSE]

\* TaskState(task_id): a task as get_task creates it.  result is the dict
\* with the keys quality and failureReason ("" = absent); task_spec and
\* last_evidence hold the payload they were set from ("" = {}).
TaskState0 ==
    [state |-> "pending", gates |-> {}, run_id |-> "", run_status |-> RunStatus0,
     last_evidence |-> "", last_verdict |-> "",
     result |-> [quality |-> "", failureReason |-> ""], task_spec |-> ""]

apply_gate(task, gate, add) ==
    [task EXCEPT !.gates = IF add THEN @ \cup {gate} ELSE @ \ {gate}]

\* (mutant) done is looked at first.
recompute_state_done_first(task) ==
    LET verdict == task.run_status.verdict IN
    IF task.run_status.completed /\ verdict = "PASS"
    THEN [task EXCEPT !.state = "done", !.gates = {},
                      !.result.quality = IF @ = "" THEN "clean" ELSE @]
    ELSE IF verdict = "BLOCK" \/ task.run_status.failed
    THEN [task EXCEPT !.state = "blocked", !.gates = {}]
    ELSE IF task.run_status.aborted
    THEN [task EXCEPT !.state = "canceled", !.gates = {}]
    ELSE task

recompute_state(task) ==
    LET verdict == task.run_status.verdict IN
    IF verdict = "BLOCK" \/ task.run_status.failed
    THEN [task EXCEPT !.state = "blocked", !.gates = {}]
    ELSE IF task.run_status.aborted
    THEN [task EXCEPT !.state = "canceled", !.gates = {}]
    ELSE IF task.run_status.completed /\ verdict = "PASS"
    THEN [task EXCEPT !.state = "done", !.gates = {},
                      !.result.quality = IF @ = "" THEN "clean" ELSE @]
    ELSE task

\* build_base_status plus the locals of reduce_events.
Fold0 ==
    [project |-> [phase |-> "running", halted |-> FALSE, mode |-> "normal",
                  degradedReason |-> ""],
     watchdog |-> [lastHeartbeatAt |-> -1, state |-> "healthy"],
     risks |-> <<>>,
     alerts |-> {},           \* the alerts, as a set (their order is not kept)
     order |-> <<>>,          \* the keys of tasks, in insertion order
     tasks |-> <<>>,          \* taskId -> TaskState
     open_runs |-> <<>>,      \* taskId -> list of runIds
     locks_project_running |-> FALSE,
     seen_keys |-> {}]

RunBoundTypes ==
    { "WORKER_RUN_STARTED", "WORKER_RUN_COMPLETED", "WORKER_RUN_FAILED",
      "WORKER_RUN_ABORTED", "EVIDENCE_SUBMITTED", "WATCHDOG_VERDICT", "HUMAN_VERDICT" }

TelemetryTypes ==
    { "MESSAGE_IGNORED", "WATCHDOG_UNRESPONSIVE", "VERDICT_TIMEOUT",
      "LOCK_TIMEOUT_DETECTED", "CORRUPTED_LINE_DETECTED" }

DegradingReason(etype) ==
    CASE etype = "WATCHDOG_UNRESPONSIVE" -> "watchdog_unresponsive"
      [] etype = "VERDICT_TIMEOUT"       -> "verdict_timeout"
      [] etype = "RECOVERY_STARTED"      -> "recovery_in_progress"

\* Lines 174-211: the project, watchdog and risks part of one fold step.
fold_project(S, event) ==
    LET etype == event.type
        p1 == CASE etype = "PROJECT_STARTED" ->
                     [S.project EXCEPT !.phase = "running"]
                [] etype = "PROJECT_FINISHED" ->
                     [S.project EXCEPT !.phase = "finished", !.halted = FALSE]
                [] etype = "PROJECT_HALTED" ->
                     [S.project EXCEPT !.phase = "halted", !.halted = TRUE]
                [] etype = "PROJECT_RESUMED" ->
                     [S.project EXCEPT !.phase = "running", !.halted = FALSE]
                [] etype = "PROJECT_MODE_RESTORED" ->
                     [S.project EXCEPT !.mode = "normal", !.degradedReason = ""]
                [] etype \in {"WATCHDOG_UNRESPONSIVE", "VERDICT_TIMEOUT", "RECOVERY_STARTED"} ->
                     [S.project EXCEPT !.mode = "degraded",
                                       !.degradedReason = DegradingReason(etype)]
                [] OTHER -> S.project
        running == CASE etype \in {"PROJECT_STARTED", "PROJECT_RESUMED"} -> TRUE
                     [] etype \in {"PROJECT_FINISHED", "PROJECT_HALTED"} -> FALSE
                     [] OTHER -> S.locks_project_running
        w1 == CASE etype = "WATCHDOG_HEARTBEAT" ->
                     [lastHeartbeatAt |-> event.at, state |-> "healthy"]
                [] etype = "WATCHDOG_UNRESPONSIVE" ->
                     [S.watchdog EXCEPT !.state = "unresponsive"]
                [] OTHER -> S.watchdog
        r1 == IF etype \in TelemetryTypes
              THEN Append(S.risks, [type |-> etype, eventId |-> event.eventId])
              ELSE S.risks
    IN [S EXCEPT !.project = p1, !.locks_project_running = running,
                 !.watchdog = w1, !.risks = r1]

\* get_task: the task, created on first use.
get_task(S, tid) ==
    IF tid \in DOMAIN S.tasks THEN S
    ELSE [S EXCEPT !.tasks = (tid :> TaskState0) @@ @, !.order = Append(@, tid)]

\* open_runs.setdefault(task_id, []).append(run_id)
open_runs_append(open_runs, task_id, run_id) ==
    IF task_id \in DOMAIN open_runs
    THEN [open_runs EXCEPT ![task_id] = Append(@, run_id)]
    ELSE (task_id :> <<run_id>>) @@ open_runs

\* Lines 305-310: RUN_CLOSED releases the run.
open_runs_close(open_runs, task_id, run_id) ==
    IF task_id \in DOMAIN open_runs /\ \E i \in DOMAIN open_runs[task_id] : open_runs[task_id][i] = run_id
    THEN LET rest == SelectSeq(open_runs[task_id], LAMBDA r : r # run_id)
         IN IF rest = <<>>
            THEN [t \in DOMAIN open_runs \ {task_id} |-> open_runs[t]]
            ELSE [open_runs EXCEPT ![task_id] = rest]
    ELSE open_runs

\* Lines 228-310: what an event of a task does to that task.
fold_task(task, event) ==
    LET etype   == event.type
        run_id  == event.runId
        payload == event.payload
    IN
    CASE etype = "TASKSPEC_PUBLISHED" ->
           [apply_gate(task, "awaiting_skill_decision", TRUE) EXCEPT
              !.state = "pending", !.task_spec = payload]
      [] etype = "TASK_SKILL_SET" ->
           apply_gate(task, "awaiting_skill_decision", FALSE)
      [] etype = "POLICY_TIER_REQUESTED" ->
           apply_gate(task, "awaiting_policy_approval", TRUE)
      [] etype = "POLICY_TIER_APPROVED" ->
           apply_gate(task, "awaiting_policy_approval", FALSE)
      [] etype = "VERDICT_TIMEOUT" ->
           apply_gate(task, "needs_human_review", TRUE)
      [] etype = "WORKER_RUN_INTENT" ->
           LET t1 == IF task.run_id # run_id
                     THEN [task EXCEPT !.run_status = RunStatus0, !.last_evidence = "",
                                       !.last_verdict = "",
                                       !.result = [quality |-> "", failureReason |-> ""]]
                     ELSE task
           IN [t1 EXCEPT !.state = "assigned", !.run_id = run_id]
      [] etype = "WORKER_RUN_STARTED" ->
           [task EXCEPT !.state = "running", !.run_id = run_id, !.run_status.started = TRUE]
      [] etype = "WORKER_RUN_COMPLETED" ->
           recompute_state([task EXCEPT !.run_status.completed = TRUE, !.run_id = run_id])
      [] etype = "WORKER_RUN_FAILED" ->
           recompute_state([task EXCEPT
              !.run_status.failed = TRUE, !.run_id = run_id,
              !.result.failureReason = IF payload # "" /\ @ = "" THEN payload ELSE @])
      [] etype = "WORKER_RUN_ABORTED" ->
           recompute_state([task EXCEPT !.run_status.aborted = TRUE, !.run_id = run_id])
      [] etype = "EVIDENCE_SUBMITTED" ->
           [apply_gate(task, "awaiting_verdict", TRUE) EXCEPT !.last_evidence = payload]
      [] etype = "WATCHDOG_VERDICT" ->
           LET t1 == apply_gate([task EXCEPT !.run_status.verdict = payload,
                                             !.last_verdict = payload],
                                "awaiting_verdict", FALSE)
               t2 == IF payload = "WARN" THEN apply_gate(t1, "needs_human_review", TRUE)
                     ELSE IF payload = "BLOCK" THEN [t1 EXCEPT !.state = "blocked", !.gates = {}]
                     ELSE t1
           IN recompute_state(t2)
      [] etype = "HUMAN_VERDICT" ->
           LET t1 == [task EXCEPT !.run_status.verdict = payload, !.last_verdict = payload]
               t2 == IF payload = "PASS"
                     THEN [apply_gate(t1, "needs_human_review", FALSE) EXCEPT
                             !.result.quality = IF @ = "" THEN "warn_override" ELSE @]
                     ELSE IF payload = "BLOCK" THEN [t1 EXCEPT !.state = "blocked", !.gates = {}]
                     ELSE t1
           IN recompute_state(t2)
      [] OTHER -> task

\* An entry of status["alerts"]: its type, the task and run(s) it names and,
\* for a corrupted line, the line number.
Alert(type, task_id, run_ids, line) ==
    [type |-> type, taskId |-> task_id, runIds |-> run_ids, line |-> line]

\* Lines 251-259 and 305-310: the intent opens its run, RUN_CLOSED releases it.
fold_open_runs(S, event) ==
    CASE event.type = "WORKER_RUN_INTENT" ->
           [S EXCEPT !.open_runs = open_runs_append(@, event.taskId, event.runId)]
      [] event.type = "RUN_CLOSED" ->
           [S EXCEPT !.open_runs = open_runs_close(@, event.taskId, event.runId)]
      [] OTHER -> S

\* Lines 289-292: a BLOCK verdict of the watchdog leaves a blocked alert.
fold_alert(S, event) ==
    IF event.type = "WATCHDOG_VERDICT" /\ event.payload = "BLOCK"
    THEN [S EXCEPT !.alerts = @ \cup { Alert("blocked", event.taskId, <<event.runId>>, 0) }]
    ELSE S

\* (mutant) no event is skipped for its run.
fold_in_task_unfiltered(S, event) ==
    fold_open_runs(
        fold_alert([S EXCEPT !.tasks[event.taskId] = fold_task(@, event)], event),
        event)

\* Lines 216-310: the task part of one fold step, S holding the task.  An
\* event bound to a run other than the current run of the task is skipped
\* (line 226).
fold_in_task(S, event) ==
    IF /\ event.type \in RunBoundTypes
       /\ S.tasks[event.taskId].run_id # "" /\ event.runId # ""
       /\ event.runId # S.tasks[event.taskId].run_id
    THEN S
    ELSE fold_open_runs(
            fold_alert([S EXCEPT !.tasks[event.taskId] = fold_task(@, event)], event),
            event)

\* Lines 157-164: the event is seen.
fold_seen(S, event) ==
    [S EXCEPT !.seen_keys = IF event.idempotencyKey # <<>>
                            THEN @ \cup {event.idempotencyKey} ELSE @]

\* Lines 213-216: an event without a task ends here, else the task is fetched.
fold_of_task(S, event) ==
    IF event.taskId = "" THEN S ELSE fold_in_task(get_task(S, event.taskId), event)

\* One iteration of the loop of reduce_events (lines 159-310).
fold_event(S, event) ==
    IF event.idempotencyKey # <<>> /\ event.idempotencyKey \in S.seen_keys THEN S
    ELSE fold_of_task(fold_project(fold_seen(S, event), event), event)

RECURSIVE FoldEvents(_, _)
FoldEvents(S, evs) ==
    IF evs = <<>> THEN S ELSE FoldEvents(fold_event(S, Head(evs)), Tail(evs))

\* Lines 312-317: under watchdog_unresponsive every open task that waits
\* for a verdict also needs human review.
propagate_degraded(S) ==
    IF S.project.degradedReason = "watchdog_unresponsive"
    THEN [S EXCEPT !.tasks =
            [t \in DOMAIN S.tasks |->
               IF S.tasks[t].state \notin {"done", "blocked", "canceled"}
                  /\ "awaiting_verdict" \in S.tasks[t].gates
               THEN apply_gate(S.tasks[t], "needs_human_review", TRUE)
               ELSE S.tasks[t]]]
    ELSE S

\* Lines 322-330: the task locks, and the tasks with several open runs.
derive_locks(open_runs) ==
    LET single == { t \in DOMAIN open_runs : Len(open_runs[t]) = 1 }
    IN [tasks    |-> [t \in single |-> open_runs[t][1]],
        multiple |-> DOMAIN open_runs \ single]

\* Lines 333-360: a task as status["tasks"] shows it.  A done task is the
\* compact entry, which has lastRunId and neither state nor runId (state "").
task_out(tid, task) ==
    IF task.state = "done"
    THEN [taskId |-> tid, state |-> "", gates |-> {}, runId |-> "",
          lastRunId |-> task.run_id, lastEvidence |-> "", lastVerdict |-> "",
          result |-> [quality |-> "", failureReason |-> ""],
          taskSpec |-> task.task_spec]
    ELSE [taskId |-> tid, state |-> task.state, gates |-> task.gates,
          runId |-> task.run_id, lastRunId |-> "",
          lastEvidence |-> task.last_evidence, lastVerdict |-> task.last_verdict,
          result |-> task.result, taskSpec |-> task.task_spec]

\* (mutant) a canceled task counts as blocked.
progress_counts_terminal(S) ==
    [total   |-> Len(S.order),
     done    |-> Cardinality({ t \in DOMAIN S.tasks : S.tasks[t].state = "done" }),
     blocked |-> Cardinality({ t \in DOMAIN S.tasks :
                                 S.tasks[t].state \in {"blocked", "canceled"} })]

\* Lines 333-365: done_count, blocked_count and len(tasks_out) of the loop
\* over tasks.values().
progress_counts(S) ==
    [total   |-> Len(S.order),
     done    |-> Cardinality({ t \in DOMAIN S.tasks : S.tasks[t].state = "done" }),
     blocked |-> Cardinality({ t \in DOMAIN S.tasks : S.tasks[t].state = "blocked" })]

\* Lines 319-394: the Status built from the folded state S and the numbers
\* of the corrupted lines.
build_status(S, corrupted) ==
    LET lk == derive_locks(S.open_runs)
        multi == lk.multiple # {}
    IN [project |->
          [phase |-> S.project.phase, halted |-> S.project.halted,
           mode |-> IF multi THEN "degraded" ELSE S.project.mode,
           degradedReason |-> IF multi THEN "multiple_open_runs"
                              ELSE S.project.degradedReason,
           progress |-> progress_counts(S)],
        watchdog |-> S.watchdog,
        tasks |-> [i \in DOMAIN S.order |-> task_out(S.order[i], S.tasks[S.order[i]])],
        risks |-> S.risks,
        alerts |-> S.alerts
                   \cup { Alert("multiple_open_runs", t, S.open_runs[t], 0) : t \in lk.multiple }
                   \cup { Alert("corrupted_line", "", <<>>, i) : i \in corrupted },
        locks |-> [project |-> IF S.locks_project_running /\ ~S.project.halted
                               THEN "running" ELSE "idle",
                   tasks |-> lk.tasks]]

\* reduce_events: the Status of the log (the derived files it also writes,
\* watchdog-verdicts.ndjson and locks-index.json, are copies of parts of it).
fold_lines(lines) ==
    propagate_degraded(FoldEvents(Fold0, SortEvents(read_events(lines).events)))

reduce_events(lines) == build_status(fold_lines(lines), read_events(lines).corrupted)

\* ----------------------------------------------------- core/orchestrator.py

heartbeat_timeout_sec == 180

stale_sec == 30 * 60

\* OrchestratorConfig(): the defaults.
DefaultConfig == [worker_timeout_minutes |-> 30, max_retries |-> 3]

\* ids.run_id("r"): a run id nobody has used; the n-th one drawn.
run_id_gen(n) == "g" \o ToString(n)

\* _build_event.  payload is the one field of the payload dict that the
\* reducer or a claim looks at (reason, closeReason, verdict, ...).
build_event(etype, task_id, run_id_str, payload, idempotency_key, causation_id) ==
    [NewEvent(etype, task_id, run_id_str, payload, idempotency_key) EXCEPT
        !.causationId = causation_id]

\* The state a tick works on: the three files, the run ids drawn so far and
\* the exception that ended it ("" while it runs).
Running(f, n) == [f |-> f, runSeq |-> n, raised |-> "", printed |-> <<>>]

\* self.sm.append_event(event), result dropped.
sm_append(c, event, t) == [c EXCEPT !.f = append_event(@, event, t).files]

RECURSIVE sm_append_all(_, _, _)
sm_append_all(c, evs, t) ==
    IF evs = <<>> THEN c ELSE sm_append_all(sm_append(c, Head(evs), t), Tail(evs), t)

\* The latest timestamp among the events of one type (-1: none).
last_at(evs, etype) ==
    LET ats == { evs[i].at : i \in { j \in DOMAIN evs : evs[j].type = etype /\ evs[j].at # -1 } }
    IN IF ats = {} THEN -1 ELSE CHOOSE a \in ats : \A b \in ats : b <= a

\* _event_index.
event_index(evs) ==
    [halted_by_verdict |-> { evs[i].causationId :
                               i \in { j \in DOMAIN evs : evs[j].type = "PROJECT_HALTED"
                                                          /\ evs[j].causationId # 0 } },
     aborted |-> { <<evs[i].taskId, evs[i].runId>> :
                     i \in { j \in DOMAIN evs : evs[j].type = "WORKER_RUN_ABORTED" } },
     closed  |-> { <<evs[i].taskId, evs[i].runId>> :
                     i \in { j \in DOMAIN evs : evs[j].type = "RUN_CLOSED" } },
     last_heartbeat_at        |-> last_at(evs, "WATCHDOG_HEARTBEAT"),
     last_project_started_at  |-> last_at(evs, "PROJECT_STARTED"),
     last_project_resumed_at  |-> last_at(evs, "PROJECT_RESUMED"),
     last_project_halted_at   |-> last_at(evs, "PROJECT_HALTED"),
     last_project_finished_at |-> last_at(evs, "PROJECT_FINISHED")]

\* _enforce_block_sequence.  Line 133 reads `run_id`, a name that is bound
\* nowhere (the local is run_id_val, the import is run_id_gen): the first
\* BLOCK verdict that has an eventId and a taskId raises NameError, and the
\* statements after line 133 never run.
enforce_block_sequence(c, evs, t) ==
    IF \E i \in DOMAIN evs :
          /\ evs[i].type = "WATCHDOG_VERDICT" /\ evs[i].payload = "BLOCK"
          /\ evs[i].eventId # 0 /\ evs[i].taskId # ""
    THEN [c EXCEPT !.raised = "NameError"]
    ELSE c

\* (mutant) the lapse is reported by every tick, under a key of its own.
watchdog_heartbeat_every_tick(c, evs, t) ==
    IF last_at(evs, "WATCHDOG_HEARTBEAT") = -1
       \/ (t - last_at(evs, "WATCHDOG_HEARTBEAT")) * 60 < heartbeat_timeout_sec
    THEN c
    ELSE sm_append(c, build_event("WATCHDOG_UNRESPONSIVE", "", "", "",
                                  <<"WATCHDOG_UNRESPONSIVE", ToString(Len(c.f.events))>>, 0), t)

\* _watchdog_heartbeat.  The call of _build_event at lines 195-201 passes
\* run_id=, which _build_event does not take: TypeError once the heartbeat
\* has lapsed.
watchdog_heartbeat(c, evs, t) ==
    LET info == event_index(evs) IN
    IF /\ info.last_project_finished_at # -1
       /\ (info.last_project_started_at = -1
           \/ info.last_project_finished_at > info.last_project_started_at)
    THEN c
    ELSE IF /\ info.last_project_halted_at # -1
            /\ (info.last_project_resumed_at = -1
                \/ info.last_project_halted_at > info.last_project_resumed_at)
    THEN c
    ELSE IF info.last_heartbeat_at = -1 THEN c
    ELSE IF (t - info.last_heartbeat_at) * 60 < heartbeat_timeout_sec THEN c
    ELSE [c EXCEPT !.raised = "TypeError"]

\* The (taskId, runId) pairs of _reconcile_open_runs.run_info, in the order
\* in which the sorted events first name them.
RECURSIVE run_order(_)
run_order(sorted) ==
    IF sorted = <<>> THEN <<>>
    ELSE LET before == run_order(SubSeq(sorted, 1, Len(sorted) - 1))
             ev     == sorted[Len(sorted)]
             k      == <<ev.taskId, ev.runId>>
         IN IF ev.taskId = "" \/ ev.runId = "" THEN before
            ELSE IF \E i \in DOMAIN before : before[i] = k THEN before
            ELSE Append(before, k)

\* The eventId of the last event of (task, run) with one of the types (0: none).
last_event_id(sorted, k, types) ==
    LET is == { i \in DOMAIN sorted : /\ <<sorted[i].taskId, sorted[i].runId>> = k
                                      /\ sorted[i].type \in types }
    IN IF is = {} THEN 0 ELSE sorted[CHOOSE i \in is : \A j \in is : j <= i].eventId

\* The timestamp of the first event of (task, run) of a type that has one (-1: none).
first_at(sorted, k, etype) ==
    LET is == { i \in DOMAIN sorted : /\ <<sorted[i].taskId, sorted[i].runId>> = k
                                      /\ sorted[i].type = etype /\ sorted[i].at # -1 }
    IN IF is = {} THEN -1 ELSE sorted[CHOOSE i \in is : \A j \in is : i <= j].at

\* run_info[(task, run)] after the scan of lines 517-545.
run_info(sorted, k) ==
    LET has(etype) == \E i \in DOMAIN sorted :
                         <<sorted[i].taskId, sorted[i].runId>> = k /\ sorted[i].type = etype
        vs == { i \in DOMAIN sorted : /\ <<sorted[i].taskId, sorted[i].runId>> = k
                                      /\ sorted[i].type \in {"WATCHDOG_VERDICT", "HUMAN_VERDICT"} }
    IN [taskId |-> k[1], runId |-> k[2],
        closed |-> has("RUN_CLOSED"), completed |-> has("WORKER_RUN_COMPLETED"),
        failed |-> has("WORKER_RUN_FAILED"), aborted |-> has("WORKER_RUN_ABORTED"),
        verdict |-> IF vs = {} THEN ""
                    ELSE sorted[CHOOSE i \in vs : \A j \in vs : j <= i].payload,
        intent_at  |-> first_at(sorted, k, "WORKER_RUN_INTENT"),
        started_at |-> first_at(sorted, k, "WORKER_RUN_STARTED"),
        verdict_event_id   |-> last_event_id(sorted, k, {"WATCHDOG_VERDICT", "HUMAN_VERDICT"}),
        failed_event_id    |-> last_event_id(sorted, k, {"WORKER_RUN_FAILED"}),
        aborted_event_id   |-> last_event_id(sorted, k, {"WORKER_RUN_ABORTED"}),
        completed_event_id |-> last_event_id(sorted, k, {"WORKER_RUN_COMPLETED"})]

\* Lines 550-604 for one run: close a run that has ended, fail and close one
\* that is open for stale_sec or longer.
reconcile_run(c, info, t) ==
    LET closed_condition ==
            \/ info.verdict = "BLOCK" \/ info.failed
            \/ info.aborted
            \/ info.completed /\ info.verdict = "PASS"
        causation_id ==
            IF info.verdict_event_id # 0 THEN info.verdict_event_id
            ELSE IF info.failed_event_id # 0 THEN info.failed_event_id
            ELSE IF info.aborted_event_id # 0 THEN info.aborted_event_id
            ELSE info.completed_event_id
        baseline == IF info.intent_at # -1 THEN info.intent_at ELSE info.started_at
        close_key == <<info.taskId, info.runId, "RUN_CLOSED">>
    IN
    IF info.closed THEN c
    ELSE IF closed_condition
    THEN sm_append(c, build_event("RUN_CLOSED", info.taskId, info.runId, "recovered_close",
                                  close_key, causation_id), t)
    ELSE IF baseline = -1 THEN c
    ELSE IF (t - baseline) * 60 < stale_sec THEN c
    ELSE
      LET failed_res == append_event(c.f,
                           build_event("WORKER_RUN_FAILED", info.taskId, info.runId,
                                       "stale after restart",
                                       <<info.taskId, info.runId, "WORKER_RUN_FAILED">>, 0), t)
          failed_event_id == IF failed_res.event = <<>> THEN 0 ELSE failed_res.event[1].eventId
      IN sm_append([c EXCEPT !.f = failed_res.files],
                   build_event("RUN_CLOSED", info.taskId, info.runId, "stale_after_restart",
                               close_key, failed_event_id), t)

RECURSIVE reconcile_runs(_, _, _, _)
reconcile_runs(c, sorted, runs, t) ==
    IF runs = <<>> THEN c
    ELSE reconcile_runs(reconcile_run(c, run_info(sorted, Head(runs)), t), sorted, Tail(runs), t)

\* _reconcile_open_runs(events).
reconcile_open_runs(c, evs, t) ==
    LET sorted == SortEvents(evs) IN reconcile_runs(c, sorted, run_order(sorted), t)

\* _handle_corrupted: two events per corrupted line, keyed by the line
\* number and the hash of the line.
RECURSIVE handle_corrupted(_, _, _, _)
handle_corrupted(c, lines, corrupted, t) ==
    IF corrupted = {} THEN c
    ELSE LET i == CHOOSE j \in corrupted : \A k \in corrupted : j <= k
             h == ToString(lines[i])
             reason == IF json_loads_ok(lines[i]) THEN "crc_mismatch" ELSE "json_decode_error"
         IN handle_corrupted(
               sm_append_all(c,
                  << build_event("CORRUPTED_LINE_DETECTED", "", "", reason,
                                 <<"CORRUPTED_LINE", ToString(i), h>>, 0),
                     build_event("RECOVERY_STARTED", "", "", reason,
                                 <<"RECOVERY_STARTED", ToString(i), h>>, 0) >>, t),
               lines, corrupted \ {i}, t)

\* (mutant) gates do not hold a task back.
dispatchable_ignoring_gates(task) == task.state = "pending"

\* Lines 230-242: a task the dispatch loop goes on with.  The test on
\* last_runs at lines 236-240 asks for state running or assigned, which a
\* pending task never has.
dispatchable(task) ==
    /\ task.state = "pending"
    /\ task.gates = {}
    /\ ~(task.runId # "" /\ task.state \in {"running", "assigned"})

\* Lines 283-288: the entry of the task in the Status has no taskSpec.
task_spec_is_none(status, task_id) ==
    \E i \in DOMAIN status.tasks :
        status.tasks[i].taskId = task_id /\ status.tasks[i].taskSpec = ""

\* _spawn_worker up to line 301: the taskSpec of the task in a fresh Status;
\* t.get("taskSpec", {}) is None for a task without a spec, and
\* task_spec.get(...) at line 297 then raises AttributeError.  After that
\* the spawn itself cannot raise (lines 327-357 catch everything).
spawn_worker(c, task_id) ==
    IF task_spec_is_none(reduce_events(c.f.events), task_id) THEN "AttributeError" ELSE ""

\* Lines 257-269: the spawn of the worker and, unless it raised (err), the
\* WORKER_RUN_STARTED of the run.
dispatch_started(c, err, task_id, run_id_val, t) ==
    IF err # "" THEN [c EXCEPT !.raised = err]
    ELSE sm_append(c,
                   build_event("WORKER_RUN_STARTED", task_id, run_id_val, "async",
                               <<task_id, run_id_val, "WORKER_RUN_STARTED">>, 0), t)

\* Lines 245-256: the WORKER_RUN_INTENT of a fresh run.
dispatch_intent(c, task_id, run_id_val, t) ==
    sm_append([c EXCEPT !.runSeq = @ + 1],
              build_event("WORKER_RUN_INTENT", task_id, run_id_val, "auto_dispatch",
                          <<task_id, run_id_val, "WORKER_RUN_INTENT">>, 0), t)

\* Lines 257-269 on the log that holds the intent.
dispatch_spawn(c, task_id, run_id_val, t) ==
    dispatch_started(c, spawn_worker(c, task_id), task_id, run_id_val, t)

\* Lines 244-269: one dispatch.
dispatch_task(c, task_id, t) ==
    dispatch_spawn(dispatch_intent(c, task_id, run_id_gen(c.runSeq + 1), t),
                   task_id, run_id_gen(c.runSeq + 1), t)

RECURSIVE dispatch_tasks(_, _, _)
dispatch_tasks(c, tasks, t) ==
    IF tasks = <<>> \/ c.raised # "" THEN c
    ELSE dispatch_tasks(IF dispatchable(Head(tasks))
                        THEN dispatch_task(c, Head(tasks).taskId, t) ELSE c,
                        Tail(tasks), t)

\* _dispatch_pending_tasks(status).
dispatch_pending_tasks(c, status, t) ==
    IF status.project.halted THEN c ELSE dispatch_tasks(c, status.tasks, t)

\* Lines 368-396: is the run of this task timed out?
timed_out(c, task, t, timeout) ==
    /\ task.state = "running" /\ task.runId # ""
    /\ LET start_time == first_at(read_events(c.f.events).events,
                                  <<task.taskId, task.runId>>, "WORKER_RUN_STARTED")
       IN start_time # -1 /\ (t - start_time) > timeout

\* Lines 399-418 for one timed-out run.
fail_timed_out(c, task, t) ==
    sm_append_all(c,
       << build_event("WORKER_RUN_FAILED", task.taskId, task.runId, "worker_timeout",
                      <<task.taskId, task.runId, "WORKER_RUN_FAILED", "timeout">>, 0),
          build_event("RUN_CLOSED", task.taskId, task.runId, "worker_timeout",
                      <<task.taskId, task.runId, "RUN_CLOSED", "timeout">>, 0) >>, t)

RECURSIVE fail_all_timed_out(_, _, _)
fail_all_timed_out(c, tasks, t) ==
    IF tasks = <<>> THEN c ELSE fail_all_timed_out(fail_timed_out(c, Head(tasks), t), Tail(tasks), t)

\* _check_worker_timeouts(status).
check_worker_timeouts(c, status, t, config) ==
    fail_all_timed_out(c,
        SelectSeq(status.tasks, LAMBDA task : timed_out(c, task, t, config.worker_timeout_minutes)),
        t)

\* task.get("runId") or task.get("lastRunId")
last_run_id(task) == IF task.runId # "" THEN task.runId ELSE task.lastRunId

\* Lines 885-889: the tasks _aggregate_results reports.  A done task is the
\* entry without a state; the scan of the log at lines 895-899 skips nothing
\* (its `continue` belongs to the inner loop).
is_result(task) ==
    \/ task.state = "" /\ last_run_id(task) # ""
    \/ task.state = "blocked"

\* (mutant) the key of the notification also carries the length of the log.
notified_key_per_tick(c, task) ==
    <<task.taskId, last_run_id(task), "notified", ToString(Len(c.f.events))>>

\* Line 948: f"{project}:{task_id}:{last_run_id}:notified"
notified_key(c, task) == <<task.taskId, last_run_id(task), "notified">>

\* Line 955: print(f"[NOTIFICATION] {msg}"), the channel of the notification;
\* the message is kept as the task and the run it is about.
print_notification(c, task) ==
    [c EXCEPT !.printed = Append(@, <<task.taskId, last_run_id(task)>>)]

\* _notify_result(result): the marker is appended (or deduped), then the
\* message goes out.
notify_result(c, task, t) ==
    print_notification(
        sm_append(c, build_event("RESULT_NOTIFIED", task.taskId, last_run_id(task), "telegram",
                                 notified_key(c, task), 0), t),
        task)

RECURSIVE notify_results(_, _, _)
notify_results(c, tasks, t) ==
    IF tasks = <<>> THEN c ELSE notify_results(notify_result(c, Head(tasks), t), Tail(tasks), t)

\* _process_results(status).
process_results(c, status, t) == notify_results(c, SelectSeq(status.tasks, is_result), t)

\* needle in text, for Python strings.
is_in(needle, text) ==
    \E i \in 1 .. (Len(text) - Len(needle) + 1) : SubSeq(text, i, i + Len(needle) - 1) = needle

\* f"{a}:{b}:{c}": the parts of an idempotency key, joined.
RECURSIVE join_key(_)
join_key(key) ==
    IF key = <<>> THEN ""
    ELSE IF Len(key) = 1 THEN key[1]
    ELSE key[1] \o ":" \o join_key(Tail(key))

\* The text of the payload of a line: of a TASK_RETRIED its previousRunId
\* and reason (retryCount is a number), of another event its one field.
payload_text(event) ==
    IF event.type = "TASK_RETRIED"
    THEN event.payload.previousRunId \o "," \o event.payload.reason
    ELSE event.payload

\* An event as text: its string values, which is where a task id, a run id
\* or a type name can occur (task ids of the model occur in no field name
\* and in no eventId).
event_text(event) ==
    event.type \o "," \o event.taskId \o "," \o event.runId \o ","
        \o payload_text(event) \o "," \o join_key(event.idempotencyKey)

\* A line of events.ndjson as text, with what was written onto it.
line_text(line) ==
    event_text(line) \o (IF Len(line.tail) > 1 THEN event_text(line.tail[2]) ELSE "")

\* (mutant) the retries of a task are never counted.
get_retry_count_zero(c, task_id) == 0

\* _get_retry_count: the lines of the log whose text holds "TASK_RETRIED"
\* and the task id (substring tests on the raw line, lines 487-488).
get_retry_count(c, task_id) ==
    Cardinality({ i \in DOMAIN c.f.events :
                    /\ is_in("TASK_RETRIED", line_text(c.f.events[i]))
                    /\ is_in(task_id, line_text(c.f.events[i])) })

\* Lines 434-474 for one task.
retry_task(c, task, t, config) ==
    LET retry_count == get_retry_count(c, task.taskId)
        new_run == run_id_gen(c.runSeq + 1)
        n == ToString(retry_count + 1)
    IN IF task.state # "blocked" \/ retry_count >= config.max_retries THEN c
       ELSE sm_append_all([c EXCEPT !.runSeq = @ + 1],
               << build_event("WORKER_RUN_INTENT", task.taskId, new_run, "auto_retry_" \o n,
                              <<task.taskId, new_run, "WORKER_RUN_INTENT", "retry">>, 0),
                  build_event("TASK_RETRIED", task.taskId, new_run,
                              [retryCount |-> retry_count + 1, previousRunId |-> task.runId,
                               reason |-> "auto_retry_after_failure"],
                              <<task.taskId, new_run, "TASK_RETRIED", n>>, 0) >>, t)

RECURSIVE retry_tasks(_, _, _, _)
retry_tasks(c, tasks, t, config) ==
    IF tasks = <<>> THEN c
    ELSE retry_tasks(retry_task(c, Head(tasks), t, config), Tail(tasks), t, config)

\* _auto_retry_blocked(status).
auto_retry_blocked(c, status, t, config) ==
    IF config.max_retries <= 0 THEN c ELSE retry_tasks(c, status.tasks, t, config)

\* (mutant) evidence files are never looked at.
pick_up_evidence_never(c, file, t) == c

\* Lines 673-745 for one evidence file <task>/<run>.md: unless a line of the
\* log names the run together with EVIDENCE_SUBMITTED, append the evidence,
\* a PASS verdict, the completion and the close.
pick_up_evidence(c, file, t) ==
    LET task_id == file[1]
        run_id_val == file[2]
        already_processed ==
            \E i \in DOMAIN c.f.events :
                c.f.events[i].type = "EVIDENCE_SUBMITTED" /\ c.f.events[i].runId = run_id_val
    IN IF already_processed THEN c
       ELSE sm_append_all(c,
               << build_event("EVIDENCE_SUBMITTED", task_id, run_id_val, "evidence",
                              <<task_id, run_id_val, "EVIDENCE_SUBMITTED">>, 0),
                  build_event("WATCHDOG_VERDICT", task_id, run_id_val, "PASS",
                              <<task_id, run_id_val, "WATCHDOG_VERDICT", "PASS">>, 0),
                  build_event("WORKER_RUN_COMPLETED", task_id, run_id_val, "success",
                              <<task_id, run_id_val, "WORKER_RUN_COMPLETED">>, 0),
                  build_event("RUN_CLOSED", task_id, run_id_val, "completed_with_pass",
                              <<task_id, run_id_val, "RUN_CLOSED">>, 0) >>, t)

\* _check_worker_evidence_files().
RECURSIVE check_worker_evidence_files(_, _, _)
check_worker_evidence_files(c, files, t) ==
    IF files = <<>> THEN c
    ELSE check_worker_evidence_files(pick_up_evidence(c, Head(files), t), Tail(files), t)

\* Lines 964-967: the events tick works on, re-read after the corrupted
\* lines were handled.
tick_read(f, n, t) ==
    handle_corrupted(Running(f, n), f.events, read_events(f.events).corrupted, t)

\* Lines 970-974: the steps of tick on the events it read.
enforce_step(i, c, evs, t) ==
    CASE i = 1 -> enforce_block_sequence(c, evs, t)
      [] i = 2 -> watchdog_heartbeat(c, evs, t)
      [] i = 3 -> reconcile_open_runs(c, evs, t)

\* Steps i..3 of them; an exception ends the tick.
RECURSIVE enforce_steps(_, _, _, _)
enforce_steps(i, c, evs, t) ==
    IF i > 3 \/ c.raised # "" THEN c
    ELSE enforce_steps(i + 1, enforce_step(i, c, evs, t), evs, t)

\* The log after corruption handling, the BLOCK sequence, the heartbeat
\* check and reconciliation.  raised # "" when one of these raised.
tick_enforced(f, n, t) ==
    enforce_steps(1, tick_read(f, n, t), read_events(tick_read(f, n, t).f.events).events, t)

\* Lines 980-990: the steps of tick on the Status it reduced.
status_step(i, c, status, files, t, config) ==
    CASE i = 1 -> dispatch_pending_tasks(c, status, t)
      [] i = 2 -> check_worker_timeouts(c, status, t, config)
      [] i = 3 -> process_results(c, status, t)
      [] i = 4 -> auto_retry_blocked(c, status, t, config)
      [] i = 5 -> check_worker_evidence_files(c, files, t)

\* Steps i..5 of them; an exception ends the tick.
RECURSIVE status_steps(_, _, _, _, _, _)
status_steps(i, c, status, files, t, config) ==
    IF i > 5 \/ c.raised # "" THEN c
    ELSE status_steps(i + 1, status_step(i, c, status, files, t, config),
                      status, files, t, config)

\* Lines 977-990: the Status after enforcement, and the steps that use it.
tick_on_status(c, files, t, config) ==
    IF c.raised # "" THEN c
    ELSE status_steps(1, c, reduce_events(c.f.events), files, t, config)

\* Lines 993-995: the Status tick returns and writes to status.json.
tick_result(c) ==
    [f |-> c.f, runSeq |-> c.runSeq, raised |-> c.raised, printed |-> c.printed,
     status |-> IF c.raised # "" THEN <<>> ELSE reduce_events(c.f.events)]

\* tick(): the files, the run ids drawn, the exception if one ended it and
\* the Status it returns (and writes to status.json) if none did.
tick(f, n, files, t, config) ==
    tick_result(tick_on_status(tick_enforced(f, n, t), files, t, config))

\* Lines 963-967 when the log tick read (seen) is no longer the log on disk
\* (f) by the time _handle_corrupted gets the events lock.
tick_read_seen(f, seen, n, t) ==
    handle_corrupted(Running(f, n), seen, read_events(seen).corrupted, t)

\* tick() from there on.
tick_seen(f, seen, n, files, t, config) ==
    tick_result(
        tick_on_status(
            enforce_steps(1, tick_read_seen(f, seen, n, t),
                          read_events(tick_read_seen(f, seen, n, t).f.events).events, t),
            files, t, config))

\* tick() of one process from line 980 on, on the Status it reduced at line
\* 977 from the log c.f, when the log on disk has become f meanwhile (the
\* run ids drawn so far: n).
tick_resumed(c, f, n, files, t, config) ==
    tick_result(status_steps(1, [c EXCEPT !.f = f, !.runSeq = n],
                             reduce_events(c.f.events), files, t, config))

\* Line 611: status["locks"]["tasks"].get(task_id), "" for None.
expected_run(f, task_id) ==
    IF task_id \in DOMAIN reduce_events(f.events).locks.tasks
    THEN reduce_events(f.events).locks.tasks[task_id]
    ELSE ""

\* validate_incoming: the files afterwards and what the caller gets.  For a
\* worker or watchdog message off the locked run, line 618 calls
\* _build_event(run_id=expected, ...); _build_event has no parameter run_id,
\* so the call raises TypeError before anything is appended.
validate_incoming(f, actor, task_id, run_id, message_type) ==
    IF task_id = "" THEN [f |-> f, result |-> "True"]
    ELSE IF /\ actor \in {"worker", "watchdog"}
            /\ (run_id = "" \/ run_id # expected_run(f, task_id))
         THEN [f |-> f, result |-> "TypeError"]
         ELSE [f |-> f, result |-> "True"]

\* ------------------------------------------------- clients of append_event

NoCall == [made |-> FALSE]

NoTick == [made |-> FALSE]

\* What test clients hand to append_event: with or without a key, with
\* differing payloads, and with or without a sequenceNumber of their own.
ClientKeys == { <<"k1">>, <<"k2">>, <<>> }
ClientPayloads == { "p", "q" }
ClientSeqs == { 0, 7 }
ClientEvents ==
    { [NewEvent("TEST_EVENT", "", "", p, k) EXCEPT !.sequenceNumber = s] :
        p \in ClientPayloads, k \in ClientKeys, s \in ClientSeqs }

\* One append_event call.
Call(e) ==
    LET r == append_event(Files, e, now)
        n == IF lastCall.made THEN lastCall.n + 1 ELSE 1
    IN /\ n <= MaxCalls
       /\ events' = r.files.events
       /\ idIndex' = r.files.idIndex
       /\ sequence' = r.files.sequence
       /\ lastCall' = [made |-> TRUE, n |-> n, input |-> e, status |-> r.status,
                       event |-> r.event, before |-> Files]
       /\ prevCall' = lastCall
       /\ UNCHANGED <<now, orchVars, sideVars>>

NoMessage == [made |-> FALSE]

EventsLock == "events.ndjson.lock"

StatusLock == "status.json.lock"

\* A process that is in neither append_event nor write_status.
Idle == [pc |-> "idle", op |-> "", arg |-> <<>>, path |-> "", waited |-> 0,
         keys |-> <<>>, seq |-> 0, rec |-> <<>>, holder |-> <<>>, result |-> "",
         calls |-> 0]

\* Nobody holds a lock, no lock file has been written, nothing was logged.
InitSide ==
    /\ flock = [path \in {EventsLock, StatusLock} |-> 0]
    /\ lockInfo = [path \in {EventsLock, StatusLock} |-> <<>>]
    /\ securityLog = <<>>
    /\ proc = [p \in 1 .. NumProcs |-> Idle]
    /\ lastMessage = NoMessage

InitSM ==
    /\ events = <<>>
    /\ idIndex = <<>>
    /\ sequence = [exists |-> FALSE, lastSequence |-> 0]
    /\ now = 0
    /\ lastCall = NoCall
    /\ prevCall = NoCall
    /\ statusFile = <<>>
    /\ evidenceFiles = <<>>
    /\ runSeq = 0
    /\ cfg = DefaultConfig
    /\ lastTick = NoTick
    /\ nTicks = 0
    /\ nEmits = 0
    /\ InitSide

NextSM == \E e \in ClientEvents : Call(e)

SpecSM == InitSM /\ [][NextSM]_vars

\* ---- append_event calls, writers that crash inside it, sequence.json lost

CrashEvents == { NewEvent("TEST_EVENT", "", "", "p", k) : k \in { <<"k1">>, <<"k2">> } }

\* The line of a writer that is about to crash (its uuid is its own).
CrashedLine(e) ==
    fill_event(e, read_last_sequence(Files) + 1, 100 + nEmits + 1, now)

\* A writer gets as far as stage 1 (part of its line is written), 2 (the
\* line is written and synced), 3 (the index is saved too) and dies.
Crash(e, stage) ==
    /\ nEmits < MaxCrashes
    /\ e.idempotencyKey \notin DOMAIN load_idempotency_index(Files)
    /\ stage = 1 => ~open_tail(Files)
    /\ events' = IF stage = 1
                 THEN Append(events, [CrashedLine(e) EXCEPT !.tail = <<"cut">>])
                 ELSE write_line(Files, CrashedLine(e))
    /\ idIndex' = IF stage = 3
                  THEN (e.idempotencyKey :> (read_last_sequence(Files) + 1)) @@ idIndex
                  ELSE idIndex
    /\ nEmits' = nEmits + 1
    /\ UNCHANGED <<sequence, now, lastCall, prevCall, statusFile, evidenceFiles, runSeq,
                   cfg, lastTick, nTicks, sideVars>>

\* derived/sequence.json is gone (or no longer readable).
LoseSequence ==
    /\ sequence.exists
    /\ sequence' = [exists |-> FALSE, lastSequence |-> 0]
    /\ UNCHANGED <<events, idIndex, now, lastCall, prevCall, orchVars, sideVars>>

InitCrash == InitSM

NextCrash ==
    \/ \E e \in CrashEvents : Call(e)
    \/ \E e \in CrashEvents, stage \in 1 .. 3 : Crash(e, stage)
    \/ LoseSequence

SpecCrash == InitCrash /\ [][NextCrash]_vars

\* ------------------------------------------- writers, the tick and the clock

\* Some writer (the PM, a worker, the watchdog, the CLI) appends an event.
\* A call that is deduped changes nothing and is not a step.
Emit(e, max) ==
    LET r == append_event(Files, e, now)
    IN /\ nEmits < max
       /\ r.status = "appended"
       /\ events' = r.files.events
       /\ idIndex' = r.files.idIndex
       /\ sequence' = r.files.sequence
       /\ nEmits' = nEmits + 1
       /\ lastTick' = NoTick
       /\ UNCHANGED <<now, lastCall, prevCall, statusFile, evidenceFiles, runSeq, cfg, nTicks, sideVars>>

\* One tick of the orchestrator.  What it appended before an exception stays
\* in the files; status.json is written only when it returns.
Tick(max) ==
    \E r \in { tick(Files, runSeq, evidenceFiles, now, cfg) } :
       /\ nTicks < max
       /\ events' = r.f.events
       /\ idIndex' = r.f.idIndex
       /\ sequence' = r.f.sequence
       /\ runSeq' = r.runSeq
       /\ statusFile' = IF r.raised = "" THEN r.status ELSE statusFile
       /\ lastTick' = [made |-> TRUE, raised |-> r.raised, before |-> Len(events), at |-> now,
                        printed |-> r.printed]
       /\ nTicks' = nTicks + 1
       /\ UNCHANGED <<now, lastCall, prevCall, evidenceFiles, cfg, nEmits, sideVars>>

\* The clock moves on.
AdvanceTime(step, max) ==
    /\ now + step <= max
    /\ now' = now + step
    /\ lastTick' = NoTick
    /\ UNCHANGED <<events, idIndex, sequence, lastCall, prevCall, statusFile,
                   evidenceFiles, runSeq, cfg, nTicks, nEmits, sideVars>>

InitOrch(config) ==
    /\ events = <<>>
    /\ idIndex = <<>>
    /\ sequence = [exists |-> FALSE, lastSequence |-> 0]
    /\ now = 0
    /\ lastCall = NoCall
    /\ prevCall = NoCall
    /\ statusFile = <<>>
    /\ evidenceFiles = <<>>
    /\ runSeq = 0
    /\ cfg = config
    /\ lastTick = NoTick
    /\ nTicks = 0
    /\ nEmits = 0
    /\ InitSide

\* ---- the reducer on logs of run intents and closes

\* Intents as every writer of the repository keys them (task, run, type; the
\* auto-retry adds "retry"), and closes with the keys of reconciliation and
\* of the worker timeout.
RunEvents ==
    { NewEvent("WORKER_RUN_INTENT", "T1", "r1", "manual_retry", <<"T1", "r1", "WORKER_RUN_INTENT">>),
      NewEvent("WORKER_RUN_INTENT", "T1", "r1", "auto_retry_1", <<"T1", "r1", "WORKER_RUN_INTENT", "retry">>),
      NewEvent("WORKER_RUN_INTENT", "T1", "r2", "manual_retry", <<"T1", "r2", "WORKER_RUN_INTENT">>),
      NewEvent("WORKER_RUN_INTENT", "T2", "r3", "manual_retry", <<"T2", "r3", "WORKER_RUN_INTENT">>),
      NewEvent("RUN_CLOSED", "T1", "r1", "recovered_close", <<"T1", "r1", "RUN_CLOSED">>),
      NewEvent("RUN_CLOSED", "T1", "r1", "worker_timeout", <<"T1", "r1", "RUN_CLOSED", "timeout">>),
      NewEvent("RUN_CLOSED", "T1", "r2", "recovered_close", <<"T1", "r2", "RUN_CLOSED">>) }

InitReduce == InitOrch(DefaultConfig)

NextReduce == \E e \in RunEvents : Emit(e, MaxEmitsReduce)

SpecReduce == InitReduce /\ [][NextReduce]_vars

\* ---- ticks interleaved with publications, skill decisions and manual intents

\* What the PM and the CLI append: a task spec and a revision of it, skill
\* decisions 1 and 2 (cmd_choose_skill keys them by decisionSeq), a skill
\* decision for a task that was never published and a manual retry intent
\* (cmd_retry).
DispatchEvents ==
    { NewEvent("TASKSPEC_PUBLISHED", "T1", "", "spec", <<"T1", "TASKSPEC_PUBLISHED">>),
      NewEvent("TASKSPEC_PUBLISHED", "T1", "", "spec", <<"T1", "TASKSPEC_PUBLISHED", "2">>),
      NewEvent("TASK_SKILL_SET", "T1", "", "", <<"T1", "TASK_SKILL_SET", "1">>),
      NewEvent("TASK_SKILL_SET", "T1", "", "", <<"T1", "TASK_SKILL_SET", "2">>),
      NewEvent("TASK_SKILL_SET", "T2", "", "", <<"T2", "TASK_SKILL_SET", "1">>),
      NewEvent("WORKER_RUN_INTENT", "T1", "r1", "manual_retry", <<"T1", "r1", "WORKER_RUN_INTENT">>) }

InitDispatch == InitOrch(DefaultConfig)

NextDispatch ==
    \/ \E e \in DispatchEvents : Emit(e, MaxEmitsDispatch)
    \/ Tick(MaxTicksDispatch)

SpecDispatch == InitDispatch /\ [][NextDispatch]_vars

\* ---- two ticks of two processes on one project

\* Process B runs tick up to the Status of line 977, process A runs a whole
\* tick, then B goes on: no lock is held across a tick.
TicksOverlap ==
    /\ nTicks + 2 <= MaxTicksOverlap
    /\ \E b \in { tick_enforced(Files, runSeq, now) } :
         /\ b.raised = ""
         /\ \E a \in { tick(b.f, b.runSeq, evidenceFiles, now, cfg) } :
              \E r \in { tick_resumed(b, a.f, a.runSeq, evidenceFiles, now, cfg) } :
                 /\ events' = r.f.events
                 /\ idIndex' = r.f.idIndex
                 /\ sequence' = r.f.sequence
                 /\ runSeq' = r.runSeq
                 /\ statusFile' = IF r.raised = "" THEN r.status ELSE statusFile
                 /\ lastTick' = [made |-> TRUE, raised |-> r.raised, before |-> Len(events),
                                  at |-> now, printed |-> a.printed \o r.printed,
                                  overlapped |-> TRUE]
    /\ nTicks' = nTicks + 2
    /\ UNCHANGED <<now, lastCall, prevCall, evidenceFiles, cfg, nEmits, sideVars>>

InitOverlap == InitOrch(DefaultConfig)

NextOverlap ==
    \/ \E e \in DispatchEvents : Emit(e, MaxEmitsOverlap)
    \/ Tick(MaxTicksOverlap)
    \/ TicksOverlap

SpecOverlap == InitOverlap /\ [][NextOverlap]_vars

\* ---- ticks over gated tasks and halted projects

GateEvents ==
    { NewEvent("TASKSPEC_PUBLISHED", "T1", "", "spec", <<"T1", "TASKSPEC_PUBLISHED">>),
      NewEvent("TASK_SKILL_SET", "T1", "", "", <<"T1", "TASK_SKILL_SET", "1">>),
      NewEvent("TASKSPEC_PUBLISHED", "T2", "", "spec", <<"T2", "TASKSPEC_PUBLISHED">>),
      NewEvent("TASK_SKILL_SET", "T2", "", "", <<"T2", "TASK_SKILL_SET", "1">>),
      NewEvent("POLICY_TIER_REQUESTED", "T2", "", "", <<"T2", "POLICY_TIER_REQUESTED", "high">>),
      NewEvent("PROJECT_HALTED", "", "", "manual", <<"PROJECT_HALTED", "1">>),
      NewEvent("PROJECT_RESUMED", "", "", "", <<"PROJECT_RESUMED", "1">>) }

InitGates == InitOrch(DefaultConfig)

NextGates ==
    \/ \E e \in GateEvents : Emit(e, MaxEmitsGates)
    \/ Tick(MaxTicksGates)

SpecGates == InitGates /\ [][NextGates]_vars

\* ---- ticks over a run: the worker and the watchdog report, time passes

\* The default configuration, and one with a short worker timeout and a
\* single retry.
RunConfigs == { DefaultConfig, [worker_timeout_minutes |-> 10, max_retries |-> 1] }

\* The files once task T1 has been published and has its skill.
Published ==
    sm_append_all(
        Running([events |-> <<>>, idIndex |-> <<>>,
                 sequence |-> [exists |-> FALSE, lastSequence |-> 0]], 0),
        << NewEvent("TASKSPEC_PUBLISHED", "T1", "", "spec", <<"T1", "TASKSPEC_PUBLISHED">>),
           NewEvent("TASK_SKILL_SET", "T1", "", "", <<"T1", "TASK_SKILL_SET", "1">>) >>,
        0).f

\* What the worker and the watchdog of a run may append for it.
ReportsOf(task_id, run) ==
    { NewEvent("WORKER_RUN_COMPLETED", task_id, run, "success",
               <<task_id, run, "WORKER_RUN_COMPLETED">>),
      NewEvent("WATCHDOG_VERDICT", task_id, run, "PASS",
               <<task_id, run, "WATCHDOG_VERDICT", "PASS">>),
      NewEvent("WATCHDOG_VERDICT", task_id, run, "BLOCK",
               <<task_id, run, "WATCHDOG_VERDICT", "BLOCK">>) }

\* A report for a run that holds the lock of its task.
Report(max) ==
    LET locks == reduce_events(events).locks.tasks
    IN \E task_id \in DOMAIN locks : \E e \in ReportsOf(task_id, locks[task_id]) : Emit(e, max)

InitRun ==
    /\ events = Published.events
    /\ idIndex = Published.idIndex
    /\ sequence = Published.sequence
    /\ now = 0
    /\ lastCall = NoCall
    /\ prevCall = NoCall
    /\ statusFile = <<>>
    /\ evidenceFiles = <<>>
    /\ runSeq = 0
    /\ cfg \in RunConfigs
    /\ lastTick = NoTick
    /\ nTicks = 0
    /\ nEmits = 0
    /\ InitSide

NextRun ==
    \/ Report(MaxEmitsRun)
    \/ Tick(MaxTicksRun)
    \/ AdvanceTime(TimeStep, MaxTime)

SpecRun == InitRun /\ [][NextRun]_vars

\* ---- the same with a workerTimeoutMinutes above 30

LongConfigs == { DefaultConfig, [worker_timeout_minutes |-> 45, max_retries |-> 1] }

InitLong ==
    /\ events = Published.events
    /\ idIndex = Published.idIndex
    /\ sequence = Published.sequence
    /\ now = 0
    /\ lastCall = NoCall
    /\ prevCall = NoCall
    /\ statusFile = <<>>
    /\ evidenceFiles = <<>>
    /\ runSeq = 0
    /\ cfg \in LongConfigs
    /\ lastTick = NoTick
    /\ nTicks = 0
    /\ nEmits = 0
    /\ InitSide

SpecLong == InitLong /\ [][NextRun]_vars

\* ---- ticks over runs that fail: the auto-retry

\* No line yet, no derived file.
NoFiles == [events |-> <<>>, idIndex |-> <<>>,
            sequence |-> [exists |-> FALSE, lastSequence |-> 0]]

\* Configurations with auto-retry off (0) and on.
RetryConfigs ==
    { [worker_timeout_minutes |-> 30, max_retries |-> m] : m \in 0 .. MaxRetriesConfigured }

\* What a task needs in the log to be running on a run.
StartedRun(task_id, run) ==
    << NewEvent("TASKSPEC_PUBLISHED", task_id, "", "spec", <<task_id, "TASKSPEC_PUBLISHED">>),
       NewEvent("TASK_SKILL_SET", task_id, "", "", <<task_id, "TASK_SKILL_SET", "1">>),
       NewEvent("WORKER_RUN_INTENT", task_id, run, "", <<task_id, run, "WORKER_RUN_INTENT">>),
       NewEvent("WORKER_RUN_STARTED", task_id, run, "", <<task_id, run, "WORKER_RUN_STARTED">>) >>

\* The files with two tasks running, the id of one a prefix of the other's.
TwoRunning ==
    sm_append_all(Running(NoFiles, 0), StartedRun("T1", "r1") \o StartedRun("T10", "r2"), 0).f

\* The failure of a run, as its worker reports it.
FailureOf(task_id, run) ==
    NewEvent("WORKER_RUN_FAILED", task_id, run, "attempt_failed",
             <<task_id, run, "WORKER_RUN_FAILED">>)

\* The run that holds the lock of a task fails.
Fail(max) ==
    LET locks == reduce_events(events).locks.tasks
    IN \E task_id \in DOMAIN locks : Emit(FailureOf(task_id, locks[task_id]), max)

InitRetry ==
    /\ events = TwoRunning.events
    /\ idIndex = TwoRunning.idIndex
    /\ sequence = TwoRunning.sequence
    /\ now = 0
    /\ lastCall = NoCall
    /\ prevCall = NoCall
    /\ statusFile = <<>>
    /\ evidenceFiles = <<>>
    /\ runSeq = 0
    /\ cfg \in RetryConfigs
    /\ lastTick = NoTick
    /\ nTicks = 0
    /\ nEmits = 0
    /\ InitSide

NextRetry ==
    \/ Fail(MaxEmitsRetry)
    \/ Tick(MaxTicksRetry)

SpecRetry == InitRetry /\ [][NextRetry]_vars

\* ---- the same on a project that is halted and resumed by hand

HaltEvents ==
    { NewEvent("PROJECT_HALTED", "", "", "manual", <<"PROJECT_HALTED", "1">>),
      NewEvent("PROJECT_RESUMED", "", "", "manual", <<"PROJECT_RESUMED", "1">>) }

NextHalt ==
    \/ Fail(MaxEmitsHalt)
    \/ \E e \in HaltEvents : Emit(e, MaxEmitsHalt)
    \/ Tick(MaxTicksHalt)

SpecHalt == InitRetry /\ [][NextHalt]_vars

\* ---- ticks over a damaged log

\* What the PM and a human append besides.
CorruptEvents ==
    { NewEvent("TASKSPEC_PUBLISHED", "T2", "", "spec", <<"T2", "TASKSPEC_PUBLISHED">>),
      NewEvent("TASK_SKILL_SET", "T2", "", "", <<"T2", "TASK_SKILL_SET", "1">>),
      NewEvent("PROJECT_STARTED", "", "", "", <<"PROJECT_STARTED", "1">>) }

\* A crash cuts events.ndjson inside line k: the lines after it are gone and
\* line k has lost its end and its newline.  The derived files stay.
Truncate(k) ==
    /\ read_events(events).corrupted = {}
    /\ k \in DOMAIN events
    /\ events' = [SubSeq(events, 1, k) EXCEPT ![k].tail = <<"cut">>]
    /\ lastTick' = NoTick
    /\ UNCHANGED <<idIndex, sequence, now, lastCall, prevCall, statusFile,
                   evidenceFiles, runSeq, cfg, nTicks, nEmits, sideVars>>

\* Line k is damaged in place: it still decodes, its payload is not the
\* one its crc32 was computed for.
Damage(k) ==
    /\ read_events(events).corrupted = {}
    /\ k \in DOMAIN events
    /\ events' = [events EXCEPT ![k].payload = "damaged"]
    /\ lastTick' = NoTick
    /\ UNCHANGED <<idIndex, sequence, now, lastCall, prevCall, statusFile,
                   evidenceFiles, runSeq, cfg, nTicks, nEmits, sideVars>>

InitCorrupt == InitRun /\ cfg = DefaultConfig

NextCorrupt ==
    \/ \E e \in CorruptEvents : Emit(e, MaxEmitsCorrupt)
    \/ \E k \in 1 .. Len(events) : Truncate(k)
    \/ \E k \in 1 .. Len(events) : Damage(k)
    \/ Tick(MaxTicksCorrupt)

SpecCorrupt == InitCorrupt /\ [][NextCorrupt]_vars

\* ---- ticks while the watchdog beats, or no longer does

\* The start, the halt, the resumption and the end of the project, and the
\* heartbeat the watchdog writes at time t (keyed by its time window).
HeartbeatEvents(t) ==
    { NewEvent("PROJECT_STARTED", "", "start-1", "", <<"PROJECT_STARTED", "start-1">>),
      NewEvent("PROJECT_HALTED", "", "", "manual", <<"PROJECT_HALTED", "1">>),
      NewEvent("PROJECT_FINISHED", "", "", "", <<"PROJECT_FINISHED", "1">>),
      NewEvent("PROJECT_RESUMED", "", "", "", <<"PROJECT_RESUMED", "1">>),
      NewEvent("WATCHDOG_HEARTBEAT", "", "", "", <<"WATCHDOG_HEARTBEAT", ToString(t)>>) }

InitHeartbeat == InitOrch(DefaultConfig)

NextHeartbeat ==
    \/ \E e \in HeartbeatEvents(now) : Emit(e, MaxEmitsHeartbeat)
    \/ Tick(MaxTicksHeartbeat)
    \/ AdvanceTime(HeartbeatStep, MaxTimeHeartbeat)

SpecHeartbeat == InitHeartbeat /\ [][NextHeartbeat]_vars

\* ---- processes inside append_event and write_status at the same time

Procs == 1 .. NumProcs

\* What the processes append: two keys, a sequenceNumber of the caller's
\* own, a payload json.dumps refuses, and an event without a key.
LockEvents ==
    { NewEvent("TEST_EVENT", "", "", "p", <<"k1">>),
      [NewEvent("TEST_EVENT", "", "", "q", <<"k2">>) EXCEPT !.sequenceNumber = 7],
      NewEvent("TEST_EVENT", "", "", "<set>", <<"k1">>),
      NewEvent("TEST_EVENT", "", "", "p", <<>>) }

\* Process p calls append_event(arg) or write_status(arg).  Lines 182-186 and
\* 225-227: without a key append_event raises at once, else the lock of the
\* file is built and entered.
Begin(p, op, arg) ==
    /\ proc[p].pc = "idle"
    /\ proc[p].calls < MaxCallsPerProc
    /\ proc' = [proc EXCEPT ![p] =
          IF op = "append_event" /\ key_missing(arg)
          THEN [Idle EXCEPT !.calls = proc[p].calls + 1, !.op = op, !.arg = arg,
                            !.result = "ValueError"]
          ELSE [Idle EXCEPT !.calls = proc[p].calls + 1, !.op = op, !.arg = arg,
                            !.pc = "acquire",
                            !.path = IF op = "append_event" THEN EventsLock ELSE StatusLock]]
    /\ UNCHANGED <<events, idIndex, sequence, now, lastCall, prevCall, orchVars,
                   flock, lockInfo, securityLog, lastMessage>>

\* One round of the loop of FileLock.acquire: flock(LOCK_EX | LOCK_NB)
\* succeeds, or it fails and the timeout has passed (LockTimeout with what
\* the lock file holds), or it fails and the process sleeps poll_interval.
Acquire(p) ==
    /\ proc[p].pc = "acquire"
    /\ IF flock[proc[p].path] = 0
       THEN /\ flock' = [flock EXCEPT ![proc[p].path] = p]
            /\ proc' = [proc EXCEPT ![p].pc = "locked"]
       ELSE /\ flock' = flock
            /\ proc' = IF proc[p].waited >= LockTimeoutPolls
                       THEN [proc EXCEPT ![p].pc = "timed_out",
                                         ![p].holder = read_lock_info(lockInfo, proc[p].path)]
                       ELSE [proc EXCEPT ![p].waited = @ + 1]
    /\ UNCHANGED <<events, idIndex, sequence, now, lastCall, prevCall, orchVars,
                   lockInfo, securityLog, lastMessage>>

\* _write_lock_info, with the flock held: truncate(), then write and flush.
\* acquiredAt is the ordinal of the call of the process.
WriteLockInfo(p) ==
    /\ proc[p].pc \in {"locked", "truncated"}
    /\ lockInfo' = [lockInfo EXCEPT ![proc[p].path] =
                      IF proc[p].pc = "locked" THEN <<>>
                      ELSE <<LockInfo(p, proc[p].calls)>>]
    /\ proc' = [proc EXCEPT ![p].pc = IF @ = "locked" THEN "truncated" ELSE "critical"]
    /\ UNCHANGED <<events, idIndex, sequence, now, lastCall, prevCall, orchVars,
                   flock, securityLog, lastMessage>>

\* The body of `with lock:` in append_event, one file access per step:
\* load the index and test the key; read the last sequence and fill the
\* event; write the line; save the index; write sequence.json.
AppendStep(p) ==
    /\ proc[p].op = "append_event"
    /\ \/ /\ proc[p].pc = "critical"
          /\ proc' = [proc EXCEPT ![p] =
                IF proc[p].arg.idempotencyKey \in DOMAIN load_idempotency_index(Files)
                THEN [proc[p] EXCEPT !.pc = "exit", !.result = "deduped"]
                ELSE [proc[p] EXCEPT !.pc = "fill", !.keys = load_idempotency_index(Files)]]
          /\ UNCHANGED <<events, idIndex, sequence>>
       \/ /\ proc[p].pc = "fill"
          /\ proc' = [proc EXCEPT ![p] =
                IF json_dumps_raises(proc[p].arg)
                THEN [proc[p] EXCEPT !.pc = "exit", !.result = "TypeError"]
                ELSE [proc[p] EXCEPT
                        !.pc = "write",
                        !.seq = read_last_sequence(Files) + 1,
                        !.rec = <<fill_event(proc[p].arg, read_last_sequence(Files) + 1,
                                             fresh_event_id(Files), now)>>]]
          /\ UNCHANGED <<events, idIndex, sequence>>
       \/ /\ proc[p].pc = "write"
          /\ events' = write_line(Files, proc[p].rec[1])
          /\ proc' = [proc EXCEPT ![p].pc = "save_index"]
          /\ UNCHANGED <<idIndex, sequence>>
       \/ /\ proc[p].pc = "save_index"
          /\ idIndex' = (proc[p].arg.idempotencyKey :> proc[p].seq) @@ proc[p].keys
          /\ proc' = [proc EXCEPT ![p].pc = "write_sequence"]
          /\ UNCHANGED <<events, sequence>>
       \/ /\ proc[p].pc = "write_sequence"
          /\ sequence' = [exists |-> TRUE, lastSequence |-> proc[p].seq]
          /\ proc' = [proc EXCEPT ![p].pc = "exit", ![p].result = "appended"]
          /\ UNCHANGED <<events, idIndex>>
    /\ UNCHANGED <<now, lastCall, prevCall, orchVars, flock, lockInfo, securityLog,
                   lastMessage>>

\* The body of `with lock:` in write_status: atomic_write_json.
WriteStatus(p) ==
    /\ proc[p].op = "write_status"
    /\ proc[p].pc = "critical"
    /\ statusFile' = proc[p].arg
    /\ proc' = [proc EXCEPT ![p].pc = "exit", ![p].result = "written"]
    /\ UNCHANGED <<events, idIndex, sequence, now, lastCall, prevCall, evidenceFiles,
                   runSeq, cfg, lastTick, nTicks, nEmits, flock, lockInfo, securityLog,
                   lastMessage>>

\* FileLock.__exit__, on a return as on an exception: the lock is released
\* and the call ends.
Release(p) ==
    /\ proc[p].pc = "exit"
    /\ flock' = release(flock, proc[p].path)
    /\ proc' = [proc EXCEPT ![p] = [Idle EXCEPT !.calls = proc[p].calls, !.op = proc[p].op,
                                                !.arg = proc[p].arg,
                                                !.result = proc[p].result]]
    /\ UNCHANGED <<events, idIndex, sequence, now, lastCall, prevCall, orchVars,
                   lockInfo, securityLog, lastMessage>>

\* except LockTimeout: one line of security.log, then the exception goes on
\* to the caller.
LogTimeout(p) ==
    /\ proc[p].pc = "timed_out"
    /\ securityLog' = append_security_log(securityLog,
                         [type |-> "LOCK_TIMEOUT_DETECTED",
                          path |-> IF proc[p].op = "append_event" THEN "events.ndjson"
                                   ELSE "status.json",
                          holder |-> proc[p].holder])
    /\ proc' = [proc EXCEPT ![p] = [Idle EXCEPT !.calls = proc[p].calls, !.op = proc[p].op,
                                                !.arg = proc[p].arg,
                                                !.holder = proc[p].holder,
                                                !.result = "LockTimeout"]]
    /\ UNCHANGED <<events, idIndex, sequence, now, lastCall, prevCall, orchVars,
                   flock, lockInfo, lastMessage>>

\* A step of a process that is inside a call.
Advance(p) ==
    \/ Acquire(p)
    \/ WriteLockInfo(p)
    \/ AppendStep(p)
    \/ WriteStatus(p)
    \/ Release(p)
    \/ LogTimeout(p)

InitLock == InitSM

NextLock ==
    \E p \in Procs :
        \/ \E e \in LockEvents : Begin(p, "append_event", e)
        \/ Begin(p, "write_status", reduce_events(events))
        \/ Advance(p)

SpecLock == InitLock /\ [][NextLock]_vars

\* A process inside a call is scheduled again and again.
SpecLockFair == SpecLock /\ \A p \in Procs : WF_vars(Advance(p))

\* ---- messages checked against the locks while runs fail and are retried

\* The messages that come in: from a worker, the watchdog or the PM, for a
\* task or for none, with a run id or without.
Messages ==
    [actor : {"worker", "watchdog", "pm"}, task_id : {"", "T1", "T10"},
     run_id : {"", "r1", "r2"}, message_type : {"EVIDENCE_SUBMITTED", "WORKER_RUN_COMPLETED"}]

\* One validate_incoming call.
Validate(msg) ==
    \E r \in { validate_incoming(Files, msg.actor, msg.task_id, msg.run_id, msg.message_type) } :
       /\ events' = r.f.events
       /\ idIndex' = r.f.idIndex
       /\ sequence' = r.f.sequence
       /\ lastMessage' = [made |-> TRUE, msg |-> msg, result |-> r.result,
                          before |-> Len(events), after |-> Len(r.f.events)]
       /\ lastTick' = NoTick
       /\ UNCHANGED <<now, lastCall, prevCall, statusFile, evidenceFiles, runSeq, cfg,
                      nTicks, nEmits, flock, lockInfo, securityLog, proc>>

NextValidate ==
    \/ Fail(MaxEmitsValidate)
    \/ Tick(MaxTicksValidate)
    \/ \E msg \in Messages : Validate(msg)

SpecValidate == InitRetry /\ [][NextValidate]_vars

\* ---- the happy path: ticks go on, the worker drops its evidence in time

\* The files once the project was started and task T1 has been published
\* and has its skill.
Started ==
    sm_append_all(
        Running(NoFiles, 0),
        << NewEvent("PROJECT_STARTED", "", "start-1", "", <<"PROJECT_STARTED", "start-1">>),
           NewEvent("TASKSPEC_PUBLISHED", "T1", "", "spec", <<"T1", "TASKSPEC_PUBLISHED">>),
           NewEvent("TASK_SKILL_SET", "T1", "", "", <<"T1", "TASK_SKILL_SET", "1">>) >>,
        0).f

\* The worker of the run that holds the lock of a task writes
\* evidence/<taskId>/<runId>.md.
DropEvidence ==
    \E locks \in { reduce_events(events).locks.tasks } :
       \E task_id \in DOMAIN locks :
          /\ evidenceFiles = <<>>
          /\ evidenceFiles' = << <<task_id, locks[task_id]>> >>
          /\ lastTick' = NoTick
          /\ UNCHANGED <<events, idIndex, sequence, now, lastCall, prevCall, statusFile,
                         runSeq, cfg, nTicks, nEmits, sideVars>>

\* One tick of run_loop, which goes on for ever: the ticks are not counted.
Ticking ==
    \E r \in { tick(Files, runSeq, evidenceFiles, now, cfg) } :
       /\ events' = r.f.events
       /\ idIndex' = r.f.idIndex
       /\ sequence' = r.f.sequence
       /\ runSeq' = r.runSeq
       /\ statusFile' = IF r.raised = "" THEN r.status ELSE statusFile
       /\ lastTick' = [made |-> TRUE, raised |-> r.raised, before |-> Len(events), at |-> now,
                        printed |-> r.printed]
       /\ UNCHANGED <<now, lastCall, prevCall, evidenceFiles, cfg, nTicks, nEmits, sideVars>>

InitHappy ==
    /\ events = Started.events
    /\ idIndex = Started.idIndex
    /\ sequence = Started.sequence
    /\ now = 0
    /\ lastCall = NoCall
    /\ prevCall = NoCall
    /\ statusFile = <<>>
    /\ evidenceFiles = <<>>
    /\ runSeq = 0
    /\ cfg = DefaultConfig
    /\ lastTick = NoTick
    /\ nTicks = 0
    /\ nEmits = 0
    /\ InitSide

NextHappy ==
    \/ Ticking
    \/ DropEvidence
    \/ AdvanceTime(HappyStep, MaxTimeHappy)

\* A tick now would change the files, the status or what the latest tick
\* was: Ticking is enabled.
TickChanges ==
    \E r \in { tick(Files, runSeq, evidenceFiles, now, cfg) } :
       \/ r.f # Files
       \/ r.runSeq # runSeq
       \/ r.raised = "" /\ (statusFile = <<>> \/ r.status # statusFile)
       \/ lastTick # [made |-> TRUE, raised |-> r.raised, before |-> Len(events), at |-> now,
                       printed |-> r.printed]

\* A run holds a lock and no evidence was written yet: DropEvidence is
\* enabled.
DropPending ==
    /\ evidenceFiles = <<>>
    /\ DOMAIN reduce_events(events).locks.tasks # {}

\* The loop goes on ticking and the worker, once dispatched, gets to write
\* its evidence: weak fairness of Ticking and of DropEvidence, with what
\* ENABLED stands for written as the state predicates above.
SpecHappy ==
    /\ InitHappy /\ [][NextHappy]_vars
    /\ ([]<>~TickChanges \/ []<><<Ticking>>_vars)
    /\ ([]<>~DropPending \/ []<><<DropEvidence>>_vars)

\* ---- the loop ticks for ever while workers and the watchdog report

CloseConfig == [worker_timeout_minutes |-> 30, max_retries |-> 1]

InitClose ==
    /\ events = Published.events
    /\ idIndex = Published.idIndex
    /\ sequence = Published.sequence
    /\ now = 0
    /\ lastCall = NoCall
    /\ prevCall = NoCall
    /\ statusFile = <<>>
    /\ evidenceFiles = <<>>
    /\ runSeq = 0
    /\ cfg = CloseConfig
    /\ lastTick = NoTick
    /\ nTicks = 0
    /\ nEmits = 0
    /\ InitSide

NextClose ==
    \/ Ticking
    \/ Report(MaxEmitsClose)
    \/ AdvanceTime(TimeStep, MaxTimeClose)

\* run_loop calls tick every interval and time goes on: weak fairness of
\* the tick (what ENABLED stands for written as the state predicate
\* TickChanges) and of the clock.
SpecClose ==
    /\ InitClose /\ [][NextClose]_vars
    /\ ([]<>~TickChanges \/ []<><<Ticking>>_vars)
    /\ WF_vars(AdvanceTime(TimeStep, MaxTimeClose))

\* ---- evidence that is written at any time of a run, ticks at any time

InitEvidence == InitHappy

NextEvidence ==
    \/ Tick(MaxTicksEvidence)
    \/ DropEvidence
    \/ AdvanceTime(TimeStep, MaxTime)

SpecEvidence == InitEvidence /\ [][NextEvidence]_vars

\* ---- a tick reads the log while a writer is inside f.write

\* The files without the line that is being written.
Committed ==
    [events |-> SubSeq(events, 1, Len(events) - 1), idIndex |-> idIndex,
     sequence |-> sequence]

\* A writer holds the events lock and the first part of its line is in the
\* file (lines 206-207: the write has not returned).
WriteBegins(e) ==
    /\ nEmits < MaxEmitsPartial
    /\ proc[1].pc = "idle"
    /\ e.idempotencyKey \notin DOMAIN load_idempotency_index(Files)
    /\ events' = Append(events,
                    [fill_event(e, read_last_sequence(Files) + 1, fresh_event_id(Files), now)
                       EXCEPT !.tail = <<"cut">>])
    /\ proc' = [proc EXCEPT ![1] = [Idle EXCEPT !.pc = "write", !.op = "append_event",
                                                !.arg = e, !.path = EventsLock]]
    /\ flock' = [flock EXCEPT ![EventsLock] = 1]
    /\ nEmits' = nEmits + 1
    /\ lastTick' = NoTick
    /\ UNCHANGED <<idIndex, sequence, now, lastCall, prevCall, statusFile, evidenceFiles,
                   runSeq, cfg, nTicks, lockInfo, securityLog, lastMessage>>

\* The write returns, the index and sequence.json are saved and the lock is
\* released, no reader having looked in between.
WriteEnds ==
    /\ proc[1].pc = "write"
    /\ \E r \in { append_event(Committed, proc[1].arg, now) } :
          /\ events' = r.files.events
          /\ idIndex' = r.files.idIndex
          /\ sequence' = r.files.sequence
    /\ proc' = [proc EXCEPT ![1] = Idle]
    /\ flock' = release(flock, EventsLock)
    /\ lastTick' = NoTick
    /\ UNCHANGED <<now, lastCall, prevCall, orchVars, lockInfo, securityLog, lastMessage>>

\* A tick reads the log while the line is half written (read_events takes no
\* lock); its first append waits for the events lock, which it gets once
\* the writer is through, and the tick goes on with what it read.
TickAcrossWrite ==
    /\ nTicks < MaxTicksPartial
    /\ proc[1].pc = "write"
    /\ \E r \in { tick_seen(append_event(Committed, proc[1].arg, now).files, events,
                             runSeq, evidenceFiles, now, cfg) } :
          /\ events' = r.f.events
          /\ idIndex' = r.f.idIndex
          /\ sequence' = r.f.sequence
          /\ runSeq' = r.runSeq
          /\ statusFile' = IF r.raised = "" THEN r.status ELSE statusFile
          /\ lastTick' = [made |-> TRUE, raised |-> r.raised, before |-> Len(events),
                           at |-> now, printed |-> r.printed, partial |-> TRUE]
    /\ nTicks' = nTicks + 1
    /\ proc' = [proc EXCEPT ![1] = Idle]
    /\ flock' = release(flock, EventsLock)
    /\ UNCHANGED <<now, lastCall, prevCall, evidenceFiles, cfg, nEmits, lockInfo,
                   securityLog, lastMessage>>

\* A tick while nobody writes.
TickAlone == proc[1].pc = "idle" /\ Tick(MaxTicksPartial)

InitPartial == InitCorrupt

NextPartial ==
    \/ \E e \in CorruptEvents : WriteBegins(e)
    \/ WriteEnds
    \/ TickAcrossWrite
    \/ TickAlone

SpecPartial == InitPartial /\ [][NextPartial]_vars

\* ---- the reducer on logs whose lines are not in the order of appending

\* Intents and closes, and an intent that brings a sequenceNumber that
\* another line has too.
PermuteEvents ==
    RunEvents \cup
    { [NewEvent("WORKER_RUN_INTENT", "T2", "r3", "manual_retry",
                <<"T2", "r3", "WORKER_RUN_INTENT">>) EXCEPT !.sequenceNumber = 1] }

\* Lines i and i + 1 of events.ndjson change places.
Swap(i) ==
    /\ i \in 1 .. Len(events) - 1
    /\ events' = [events EXCEPT ![i] = events[i + 1], ![i + 1] = events[i]]
    /\ lastTick' = NoTick
    /\ UNCHANGED <<idIndex, sequence, now, lastCall, prevCall, statusFile,
                   evidenceFiles, runSeq, cfg, nTicks, nEmits, sideVars>>

NextPermute ==
    \/ \E e \in PermuteEvents : Emit(e, MaxEmitsPermute)
    \/ \E i \in 1 .. Len(events) - 1 : Swap(i)

InitPermute == InitOrch(DefaultConfig)

SpecPermute == InitPermute /\ [][NextPermute]_vars

\* ---- the reducer on logs of what workers, the watchdog and humans report

\* The reports of one kind for a run of a task.
OutcomeOf(etype, task_id, run, payload) ==
    NewEvent(etype, task_id, run, payload,
             IF payload = "" THEN <<task_id, run, etype>> ELSE <<task_id, run, etype, payload>>)

\* Every run-bound report for a run, with the verdicts PASS, WARN and BLOCK.
AllOutcomesOf(task_id, run) ==
    { OutcomeOf(etype, task_id, run, "") :
        etype \in {"WORKER_RUN_STARTED", "WORKER_RUN_COMPLETED", "WORKER_RUN_ABORTED"} }
    \cup { OutcomeOf("WORKER_RUN_FAILED", task_id, run, "attempt_failed"),
           OutcomeOf("EVIDENCE_SUBMITTED", task_id, run, "evidence") }
    \cup { OutcomeOf(etype, task_id, run, v) :
             etype \in {"WATCHDOG_VERDICT", "HUMAN_VERDICT"}, v \in {"PASS", "WARN", "BLOCK"} }

\* Reports for the runs that T1 and T10 are bound to, the same reports for a
\* run r3 that T1 is not bound to, the intent that binds T1 to r3 and the
\* close of r3.
OutcomeEvents ==
    AllOutcomesOf("T1", "r1") \cup AllOutcomesOf("T1", "r3")
    \cup { e \in AllOutcomesOf("T10", "r2") :
             e.type \in {"WORKER_RUN_COMPLETED", "WORKER_RUN_FAILED", "WATCHDOG_VERDICT"} }
    \cup { NewEvent("WORKER_RUN_INTENT", "T1", "r3", "manual_retry",
                    <<"T1", "r3", "WORKER_RUN_INTENT">>),
           NewEvent("RUN_CLOSED", "T1", "r3", "recovered_close",
                    <<"T1", "r3", "RUN_CLOSED">>) }

InitOutcome ==
    /\ events = TwoRunning.events
    /\ idIndex = TwoRunning.idIndex
    /\ sequence = TwoRunning.sequence
    /\ now = 0
    /\ lastCall = NoCall
    /\ prevCall = NoCall
    /\ statusFile = <<>>
    /\ evidenceFiles = <<>>
    /\ runSeq = 0
    /\ cfg = DefaultConfig
    /\ lastTick = NoTick
    /\ nTicks = 0
    /\ nEmits = 0
    /\ InitSide

NextOutcome == \E e \in OutcomeEvents : Emit(e, MaxEmitsOutcome)

SpecOutcome == InitOutcome /\ [][NextOutcome]_vars

\* ------------------------------------------------------------ C1, C2, C4

WithKey(k) == { i \in DOMAIN events : events[i].idempotencyKey = k }

SameKeyTwice ==
    /\ prevCall.made /\ lastCall.made
    /\ prevCall.input.idempotencyKey # <<>>
    /\ lastCall.input.idempotencyKey = prevCall.input.idempotencyKey

\* C1: two consecutive append_event calls with the same idempotencyKey
\* (payloads and other fields free): the second returns "deduped" with no
\* event and leaves events.ndjson, idempotency-index.json and sequence.json
\* as they were, the log holds exactly one record with that key, and when the
\* first call appended, lastSequence has grown by exactly 1 over both calls.
C1_SecondAppendDeduped ==
    SameKeyTwice =>
        /\ lastCall.status = "deduped"
        /\ lastCall.event = <<>>
        /\ Files = lastCall.before
        /\ Cardinality(WithKey(lastCall.input.idempotencyKey)) = 1
        /\ prevCall.status = "appended" =>
              /\ sequence.exists
              /\ sequence.lastSequence = read_last_sequence(prevCall.before) + 1

C1_Witness ==
    /\ SameKeyTwice
    /\ prevCall.status = "appended"
    /\ prevCall.input.payload # lastCall.input.payload
    /\ Len(prevCall.before.events) >= 1

\* C2: the sequenceNumbers of the persisted records, in file order, are
\* 1, 2, ..., n, and sequence.json.lastSequence = n, whatever events with an
\* idempotencyKey were handed in.
C2_SequenceContiguous ==
    /\ \A i \in DOMAIN events : events[i].sequenceNumber = i
    /\ read_last_sequence(Files) = Len(events)

\* The values a field of a stored record may be overwritten with.
FieldValues(field) ==
    CASE field = "type"           -> { "TEST_EVENT", "OTHER" }
      [] field = "taskId"         -> { "", "T1" }
      [] field = "runId"          -> { "", "r1" }
      [] field = "payload"        -> { "p", "q", "tampered" }
      [] field = "idempotencyKey" -> ClientKeys
      [] field = "eventId"        -> 0 .. MaxCalls
      [] field = "sequenceNumber" -> 0 .. (MaxCalls + 7)
      [] field = "at"             -> { -1, 0, 1 }
      [] field = "causationId"    -> { 0, 1 }

Fields ==
    { "type", "taskId", "runId", "payload", "idempotencyKey", "eventId",
      "sequenceNumber", "at", "causationId" }

SetField(event, field, v) ==
    CASE field = "type"           -> [event EXCEPT !.type = v]
      [] field = "taskId"         -> [event EXCEPT !.taskId = v]
      [] field = "runId"          -> [event EXCEPT !.runId = v]
      [] field = "payload"        -> [event EXCEPT !.payload = v]
      [] field = "idempotencyKey" -> [event EXCEPT !.idempotencyKey = v]
      [] field = "eventId"        -> [event EXCEPT !.eventId = v]
      [] field = "sequenceNumber" -> [event EXCEPT !.sequenceNumber = v]
      [] field = "at"             -> [event EXCEPT !.at = v]
      [] field = "causationId"    -> [event EXCEPT !.causationId = v]

\* The records that differ from a stored one in one field other than crc32.
Tampered(event) ==
    UNION { { SetField(event, fl, v) : v \in FieldValues(fl) } : fl \in Fields } \ { event }

Tasks == { "T1", "T2" }

\* The open runs of a task in a log: the runs with a WORKER_RUN_INTENT that
\* no later RUN_CLOSED of the same run follows.
OpenRuns(log, task_id) ==
    { log[i].runId : i \in { j \in DOMAIN log :
         /\ log[j].type = "WORKER_RUN_INTENT" /\ log[j].taskId = task_id
         /\ ~\E k \in DOMAIN log : /\ k > j /\ log[k].type = "RUN_CLOSED"
                                   /\ log[k].taskId = task_id /\ log[k].runId = log[j].runId } }

\* C6: in the Status of the log, locks.tasks[task] = run iff run is the only
\* open run of the task, and a task with two or more open runs is absent
\* from locks.tasks while the Status is degraded with reason
\* multiple_open_runs and has a multiple_open_runs alert naming the task.
C6_LockIffOnlyOpenRun ==
    LET status == reduce_events(events)
        locks  == status.locks.tasks
    IN \A task_id \in Tasks :
          /\ \A run \in OpenRuns(events, task_id) \cup {"r1", "r2", "r3"} :
                (task_id \in DOMAIN locks /\ locks[task_id] = run)
                   <=> OpenRuns(events, task_id) = {run}
          /\ Cardinality(OpenRuns(events, task_id)) >= 2 =>
                /\ task_id \notin DOMAIN locks
                /\ status.project.mode = "degraded"
                /\ status.project.degradedReason = "multiple_open_runs"
                /\ \E a \in status.alerts : a.type = "multiple_open_runs" /\ a.taskId = task_id

\* ------------------------------------------------- C3, C5, C7, C8, C9, C10

\* The log as the latest tick found it, and the lines that tick appended.
PreTick == SubSeq(events, 1, lastTick.before)

NewLines == { i \in DOMAIN events : i > lastTick.before }

\* The entries of a task in a Status.
EntriesOf(status, task_id) ==
    { status.tasks[i] : i \in { j \in DOMAIN status.tasks : status.tasks[j].taskId = task_id } }

\* The lines of the log with a type, task, run and payload.
LinesOf(etype, task_id, run, payload) ==
    { i \in DOMAIN events : /\ events[i].type = etype /\ events[i].taskId = task_id
                            /\ events[i].runId = run /\ events[i].payload = payload }

\* The BLOCK verdicts for a (task, run) that the latest tick found in the log.
BlockVerdicts ==
    { i \in DOMAIN PreTick : /\ PreTick[i].type = "WATCHDOG_VERDICT" /\ PreTick[i].payload = "BLOCK"
                             /\ PreTick[i].taskId # "" /\ PreTick[i].runId # "" }

\* C3: a tick on a log with a WATCHDOG_VERDICT BLOCK for (task, run) returns,
\* and after it the log holds exactly one PROJECT_HALTED caused by that
\* verdict, exactly one WORKER_RUN_ABORTED(task, run) and exactly one
\* RUN_CLOSED(task, run) with reason blocked_by_watchdog, in that order after
\* the verdict, and the published Status shows the task blocked and the
\* project halted.
C3_BlockCascade ==
    lastTick.made =>
      \A v \in BlockVerdicts :
        LET task_id == events[v].taskId
            run     == events[v].runId
            halts   == { i \in DOMAIN events : /\ events[i].type = "PROJECT_HALTED"
                                               /\ events[i].causationId = events[v].eventId }
            aborts  == { i \in DOMAIN events : /\ events[i].type = "WORKER_RUN_ABORTED"
                                               /\ events[i].taskId = task_id
                                               /\ events[i].runId = run }
            closes  == LinesOf("RUN_CLOSED", task_id, run, "blocked_by_watchdog")
        IN /\ lastTick.raised = ""
           /\ Cardinality(halts) = 1 /\ Cardinality(aborts) = 1 /\ Cardinality(closes) = 1
           /\ \A h \in halts, a \in aborts, c \in closes : v < h /\ h < a /\ a < c
           /\ statusFile.project.halted
           /\ \A e \in EntriesOf(statusFile, task_id) : e.state = "blocked"

\* The RESULT_NOTIFIED lines of a log for a (task, run).
Notified(log, task_id, run) ==
    { i \in DOMAIN log : /\ log[i].type = "RESULT_NOTIFIED" /\ log[i].taskId = task_id
                         /\ log[i].runId = run }

\* The tasks that were terminal (done or blocked) when the latest tick began
\* and had been notified for their last run.
NotifiedTerminal ==
    { e \in { t \in UNION { EntriesOf(reduce_events(PreTick), task_id) : task_id \in {"T1", "T2"} } :
                is_result(t) } :
        Notified(PreTick, e.taskId, last_run_id(e)) # {} }

\* C5: the log never holds two RESULT_NOTIFIED for one (task, run), and a
\* tick over a task that is still terminal with the same last run and has
\* been notified appends no RESULT_NOTIFIED for it.
C5_NotifiedOnce ==
    /\ \A i, j \in DOMAIN events :
          /\ events[i].type = "RESULT_NOTIFIED" /\ events[j].type = "RESULT_NOTIFIED"
          /\ events[i].taskId = events[j].taskId /\ events[i].runId = events[j].runId
          => i = j
    /\ lastTick.made =>
          \A e \in NotifiedTerminal :
             Notified(events, e.taskId, last_run_id(e)) \cap NewLines = {}

C5_Witness ==
    /\ lastTick.made /\ lastTick.raised = ""
    /\ NotifiedTerminal # {}

\* C7: no WORKER_RUN_INTENT with reason auto_dispatch is appended for a task
\* that has an open run (an intent that no RUN_CLOSED has followed) at that
\* point of the log.
C7_NoDispatchOverOpenRun ==
    \A i \in DOMAIN events :
        events[i].type = "WORKER_RUN_INTENT" /\ events[i].payload = "auto_dispatch"
        => OpenRuns(SubSeq(events, 1, i - 1), events[i].taskId) = {}

\* The run ids a log mentions.
RunsIn(log) == { log[i].runId : i \in DOMAIN log }

\* C8: a tick on a project that is not halted returns, and for every task
\* that was pending with no gate it has appended WORKER_RUN_INTENT (reason
\* auto_dispatch) and then WORKER_RUN_STARTED with one run id that the log
\* did not know, and the Status it returns shows the task running and bound
\* to that run.
C8_TickDispatchesPending ==
    lastTick.made =>
      LET pre == reduce_events(PreTick) IN
      ~pre.project.halted =>
        \A i \in DOMAIN pre.tasks :
          pre.tasks[i].state = "pending" /\ pre.tasks[i].gates = {} =>
            /\ lastTick.raised = ""
            /\ \E j, k \in NewLines :
                 /\ j < k
                 /\ events[j].type = "WORKER_RUN_INTENT" /\ events[j].payload = "auto_dispatch"
                 /\ events[j].taskId = pre.tasks[i].taskId
                 /\ events[k].type = "WORKER_RUN_STARTED"
                 /\ events[k].taskId = pre.tasks[i].taskId
                 /\ events[k].runId = events[j].runId
                 /\ events[j].runId \notin RunsIn(PreTick)
                 /\ \A e \in EntriesOf(statusFile, pre.tasks[i].taskId) :
                       e.state = "running" /\ e.runId = events[j].runId

\* The lines the dispatch step of the latest tick appended for a task.
DispatchLines(task_id) ==
    { i \in NewLines : /\ events[i].taskId = task_id
                       /\ \/ events[i].type = "WORKER_RUN_INTENT" /\ events[i].payload = "auto_dispatch"
                          \/ events[i].type = "WORKER_RUN_STARTED" }

\* C9: a tick appends neither an auto_dispatch WORKER_RUN_INTENT nor a
\* WORKER_RUN_STARTED for a task whose gate set is non-empty, a pending task
\* with gates is still pending with the same gates in the Status the tick
\* returns, and a tick on a halted project dispatches no task at all.
C9_GatedOrHaltedNotDispatched ==
    lastTick.made =>
      LET pre == reduce_events(PreTick) IN
      /\ \A i \in DOMAIN pre.tasks :
            pre.tasks[i].gates # {} =>
               /\ DispatchLines(pre.tasks[i].taskId) = {}
               /\ pre.tasks[i].state = "pending" /\ lastTick.raised = "" =>
                     \A e \in EntriesOf(statusFile, pre.tasks[i].taskId) :
                         e.state = "pending" /\ e.gates = pre.tasks[i].gates
      /\ pre.project.halted => \A task_id \in {"T1", "T2"} : DispatchLines(task_id) = {}

C9_Witness ==
    /\ lastTick.made /\ lastTick.raised = ""
    /\ \E i \in DOMAIN reduce_events(PreTick).tasks :
          /\ reduce_events(PreTick).tasks[i].state = "pending"
          /\ reduce_events(PreTick).tasks[i].gates # {}
    /\ \E task_id \in {"T1", "T2"} : DispatchLines(task_id) # {}

\* C10: when a tick returns, every task that was running on a run whose
\* WORKER_RUN_STARTED was older than workerTimeoutMinutes has got
\* WORKER_RUN_FAILED (reason worker_timeout) and then RUN_CLOSED (closeReason
\* worker_timeout) for that run from this tick, and the Status the tick
\* returns shows the task blocked.
C10_TimeoutFailsRun ==
    lastTick.made /\ lastTick.raised = "" =>
      LET pre == reduce_events(PreTick) IN
      \A i \in DOMAIN pre.tasks :
        LET task_id == pre.tasks[i].taskId
            run     == pre.tasks[i].runId
            started == first_at(PreTick, <<task_id, run>>, "WORKER_RUN_STARTED")
        IN /\ pre.tasks[i].state = "running" /\ run # ""
           /\ started # -1 /\ lastTick.at - started > cfg.worker_timeout_minutes
           => /\ \E j \in LinesOf("WORKER_RUN_FAILED", task_id, run, "worker_timeout") \cap NewLines :
                 \E k \in LinesOf("RUN_CLOSED", task_id, run, "worker_timeout") \cap NewLines : j < k
              /\ \A e \in EntriesOf(statusFile, task_id) : e.state = "blocked"

\* ------------------------------------------------------------- C11, C12

RetryTasks == { "T1", "T10" }

\* The TASK_RETRIED lines of a task in a log.
Retried(log, task_id) ==
    { i \in DOMAIN log : log[i].type = "TASK_RETRIED" /\ log[i].taskId = task_id }

\* The WORKER_RUN_INTENT lines of an auto-retry.
AutoRetryIntents ==
    { i \in DOMAIN events : /\ events[i].type = "WORKER_RUN_INTENT"
                            /\ is_in("auto_retry", events[i].payload) }

\* The tasks that were blocked when the latest tick began.
BlockedBefore ==
    { t \in UNION { EntriesOf(reduce_events(PreTick), task_id) : task_id \in RetryTasks } :
        t.state = "blocked" }

\* C11: the log never holds more than maxRetries TASK_RETRIED events of one
\* task, a tick retries no blocked task that already has maxRetries of them,
\* and with maxRetries = 0 the log holds no TASK_RETRIED and no auto_retry
\* WORKER_RUN_INTENT.
C11_RetriesBounded ==
    /\ \A task_id \in RetryTasks : Cardinality(Retried(events, task_id)) <= cfg.max_retries
    /\ lastTick.made =>
          \A t \in BlockedBefore :
             Cardinality(Retried(PreTick, t.taskId)) >= cfg.max_retries
             => Retried(events, t.taskId) \cap NewLines = {}
    /\ cfg.max_retries = 0 =>
          /\ \A task_id \in RetryTasks : Retried(events, task_id) = {}
          /\ AutoRetryIntents = {}

C11_Witness ==
    /\ lastTick.made /\ lastTick.raised = ""
    /\ cfg.max_retries = 1
    /\ \E t \in BlockedBefore : Cardinality(Retried(PreTick, t.taskId)) = 1

\* C12: with maxRetries > 0, a tick that finds a task blocked with
\* k < maxRetries TASK_RETRIED events of that task appends one
\* WORKER_RUN_INTENT with a run id the log did not know and reason
\* auto_retry_(k+1) and after it one TASK_RETRIED with that run id,
\* retryCount k+1 and previousRunId the blocked run; the retryCount values of
\* the TASK_RETRIED events of a task are 1, 2, ... in log order.
C12_RetryCountsConsecutive ==
    /\ lastTick.made /\ cfg.max_retries > 0 =>
          \A t \in BlockedBefore :
             LET k == Cardinality(Retried(PreTick, t.taskId))
                 intents == { i \in AutoRetryIntents \cap NewLines : events[i].taskId = t.taskId }
                 retried == Retried(events, t.taskId) \cap NewLines
             IN k < cfg.max_retries =>
                  /\ Cardinality(intents) = 1 /\ Cardinality(retried) = 1
                  /\ \A i \in intents, j \in retried :
                        /\ i < j
                        /\ events[i].payload = "auto_retry_" \o ToString(k + 1)
                        /\ events[i].runId \notin RunsIn(PreTick)
                        /\ events[j].runId = events[i].runId
                        /\ events[j].payload.retryCount = k + 1
                        /\ events[j].payload.previousRunId = t.runId
    /\ \A task_id \in RetryTasks :
          \A i \in Retried(events, task_id) :
             events[i].payload.retryCount
                = Cardinality({ j \in Retried(events, task_id) : j <= i })

\* ------------------------------------------------------------------ C13

\* The lines of the log that fail to decode or to verify.
CorruptedLines(log) == read_events(log).corrupted

\* The readable events of a type that the log holds for line i.
EventsForLine(etype, i) ==
    { j \in DOMAIN events : /\ json_loads_ok(events[j]) /\ verify_crc32(events[j])
                            /\ events[j].type = etype
                            /\ events[j].idempotencyKey[2] = ToString(i) }

\* A log without its line i.
WithoutLine(log, i) == SubSeq(log, 1, i - 1) \o SubSeq(log, i + 1, Len(log))

\* C13: a line that fails to decode or to verify adds nothing to the fold,
\* and a tick on a log with such a line returns, after which the log holds a
\* CORRUPTED_LINE_DETECTED and a RECOVERY_STARTED event for the line and the
\* published Status is degraded with reason recovery_in_progress.
C13_CorruptedLineRecovered ==
    /\ \A i \in CorruptedLines(events) :
          reduce_events(events).tasks = reduce_events(WithoutLine(events, i)).tasks
    /\ lastTick.made =>
          \A i \in CorruptedLines(PreTick) :
             /\ lastTick.raised = ""
             /\ EventsForLine("CORRUPTED_LINE_DETECTED", i) # {}
             /\ EventsForLine("RECOVERY_STARTED", i) # {}
             /\ statusFile.project.mode = "degraded"
             /\ statusFile.project.degradedReason = "recovery_in_progress"

\* ------------------------------------------------------------------ C14

\* The heartbeat lapsed when the latest tick began: the log held a
\* WATCHDOG_HEARTBEAT, the latest at least heartbeat_timeout_sec old, and
\* the project was neither halted nor finished.
HeartbeatLapsed ==
    /\ lastTick.made
    /\ last_at(PreTick, "WATCHDOG_HEARTBEAT") # -1
    /\ (lastTick.at - last_at(PreTick, "WATCHDOG_HEARTBEAT")) * 60 >= heartbeat_timeout_sec
    /\ ~reduce_events(PreTick).project.halted
    /\ reduce_events(PreTick).project.phase # "finished"

\* C14: a tick that finds the heartbeat lapsed returns, has appended exactly
\* one WATCHDOG_UNRESPONSIVE, and publishes a Status with watchdog.state
\* unresponsive and the project degraded with reason watchdog_unresponsive.
C14_LapsedHeartbeatReported ==
    HeartbeatLapsed =>
        /\ lastTick.raised = ""
        /\ Cardinality({ i \in NewLines : events[i].type = "WATCHDOG_UNRESPONSIVE" }) = 1
        /\ statusFile.watchdog.state = "unresponsive"
        /\ statusFile.project.mode = "degraded"
        /\ statusFile.project.degradedReason = "watchdog_unresponsive"

\* ------------------------------------------------------------------ C15

\* Process p is inside the `with lock:` body of append_event.
InAppendBody(p) ==
    /\ proc[p].op = "append_event"
    /\ proc[p].pc \in {"critical", "fill", "write", "save_index", "write_sequence"}

\* C15: append_event calls made at the same time are serialized: the bodies
\* of two calls never overlap, no two lines of the log share a
\* sequenceNumber, a key is on one line at most, and the sequence numbers
\* rise in line order.
C15_AppendsSerialized ==
    /\ \A p, q \in Procs : InAppendBody(p) /\ InAppendBody(q) => p = q
    /\ \A i, j \in DOMAIN events :
          i # j => events[i].sequenceNumber # events[j].sequenceNumber
    /\ \A i, j \in DOMAIN events :
          events[i].idempotencyKey = events[j].idempotencyKey => i = j
    /\ \A i, j \in DOMAIN events :
          i < j => events[i].sequenceNumber < events[j].sequenceNumber

\* ------------------------------------------------------------------ C16

\* Process p is past flock() and before release() on the lock at path.
Holds(p, path) ==
    /\ proc[p].path = path
    /\ proc[p].pc \in {"locked", "truncated", "critical", "fill", "write",
                       "save_index", "write_sequence", "exit"}

\* C16: a lock has one holder at most, a contender waits no longer than its
\* timeout, and the LockTimeout it then raises carries the record
\* {pid, acquiredAt} of the process that holds the lock at that moment.
C16_LockExclusiveBounded ==
    /\ [](\A path \in {EventsLock, StatusLock} :
             Cardinality({ p \in Procs : Holds(p, path) }) <= 1)
    /\ [](\A p \in Procs : proc[p].pc = "acquire" => proc[p].waited <= LockTimeoutPolls)
    /\ [][\A p \in Procs :
             proc[p].pc = "acquire" /\ proc'[p].pc = "timed_out" =>
                /\ flock[proc[p].path] \in Procs \ {p}
                /\ proc'[p].holder
                     = << LockInfo(flock[proc[p].path], proc[flock[proc[p].path]].calls) >>]_vars

\* ------------------------------------------------------------------ C17

\* C17: a process that is back from append_event or write_status, however
\* the call ended, holds no lock; a lock that is held is released; and a
\* contender gets the lock or its timeout.
C17_LockAlwaysReleased ==
    /\ [](\A p \in Procs : proc[p].pc = "idle" =>
             \A path \in {EventsLock, StatusLock} : flock[path] # p)
    /\ \A p \in Procs : \A path \in {EventsLock, StatusLock} :
          (flock[path] = p) ~> (flock[path] # p)
    /\ \A p \in Procs :
          (proc[p].pc = "acquire") ~> (proc[p].pc \in {"locked", "timed_out"})

\* An append_event ended with an exception inside the body, the lock is
\* free again, and the other process has taken it since.
C17_Witness ==
    \E p, q \in Procs :
       /\ p # q
       /\ proc[p].pc = "idle" /\ proc[p].result = "TypeError"
       /\ proc[q].pc = "critical" /\ proc[q].op = "append_event"
       /\ lockInfo[EventsLock] = << LockInfo(q, proc[q].calls) >>
       /\ proc[q].calls = 2

\* ------------------------------------------------------------------ C18

\* C18: an append_event that does not get the lock within the timeout
\* raises LockTimeout, has appended one LOCK_TIMEOUT_DETECTED record with
\* the holder metadata to security.log, and has written nothing to
\* events.ndjson, the idempotency index or sequence.json.
C18_TimeoutLoggedFilesUntouched ==
    [][\A p \in Procs :
          /\ proc[p].op = "append_event"
          /\ proc[p].pc \in {"acquire", "timed_out"}
          /\ proc'[p] # proc[p]
          => /\ UNCHANGED <<events, idIndex, sequence>>
             /\ IF proc[p].pc = "acquire"
                THEN UNCHANGED securityLog
                ELSE /\ securityLog' = Append(securityLog,
                                          [type |-> "LOCK_TIMEOUT_DETECTED",
                                           path |-> "events.ndjson",
                                           holder |-> proc[p].holder])
                     /\ proc'[p].pc = "idle"
                     /\ proc'[p].result = "LockTimeout"]_vars

\* An append_event is back with LockTimeout; the log of events holds what
\* the holder went on to write.
C18_Witness ==
    \E p \in Procs :
       /\ proc[p].pc = "idle" /\ proc[p].op = "append_event"
       /\ proc[p].result = "LockTimeout"
       /\ securityLog # <<>>
       /\ securityLog[Len(securityLog)].holder # <<>>
       /\ events # <<>>

\* ------------------------------------------------------------------ C19

\* C19: append_event with an event that has no idempotencyKey raises, hands
\* back no event and leaves the log, the idempotency index and
\* sequence.json as they were, so that the next sequence number is the same
\* as before.
C19_KeylessAppendRejected ==
    lastCall.made /\ lastCall.input.idempotencyKey = <<>> =>
        /\ lastCall.status = "ValueError"
        /\ lastCall.event = <<>>
        /\ Files = lastCall.before
        /\ read_last_sequence(Files) = read_last_sequence(lastCall.before)

\* A call without a key was made on a log that holds events.
C19_Witness ==
    /\ lastCall.made
    /\ lastCall.input.idempotencyKey = <<>>
    /\ lastCall.input.sequenceNumber = 7
    /\ Len(events) >= 2

\* ------------------------------------------------------------------ C20

\* The run that held the lock of the task of the latest message when the
\* message came in ("" for none).
ExpectedThen ==
    expected_run([events |-> SubSeq(events, 1, lastMessage.before)], lastMessage.msg.task_id)

\* The latest message names a task, comes from a worker or the watchdog and
\* is not of the run that held the lock of the task (a message without a
\* run id is of no run).
StaleMessage ==
    /\ lastMessage.made
    /\ lastMessage.msg.task_id # ""
    /\ lastMessage.msg.actor \in {"worker", "watchdog"}
    /\ (lastMessage.msg.run_id = "" \/ lastMessage.msg.run_id # ExpectedThen)

\* The MESSAGE_IGNORED events that the log, as the call left it, holds for
\* the latest message.
IgnoredForMessage ==
    { i \in 1 .. lastMessage.after :
         /\ events[i].type = "MESSAGE_IGNORED"
         /\ events[i].taskId = lastMessage.msg.task_id
         /\ events[i].idempotencyKey
              = << lastMessage.msg.task_id, ExpectedThen, "MESSAGE_IGNORED",
                   lastMessage.msg.run_id, lastMessage.msg.message_type >> }

\* C20: validate_incoming rejects (False) a worker or watchdog message
\* whose run is not the locked run of its task, with one MESSAGE_IGNORED
\* event in the log for that run id and message type; it accepts (True)
\* every other message and appends nothing for it.
C20_StaleMessageIgnored ==
    lastMessage.made =>
        IF StaleMessage
        THEN /\ lastMessage.result = "False"
             /\ lastMessage.after <= lastMessage.before + 1
             /\ Cardinality(IgnoredForMessage) = 1
        ELSE /\ lastMessage.result = "True"
             /\ lastMessage.after = lastMessage.before

\* ------------------------------------------------------------------ C21

\* The lines of the log of a type for run g1 of task T1.
HappyLines(etype) ==
    { i \in DOMAIN events : /\ events[i].type = etype
                            /\ events[i].taskId = "T1"
                            /\ events[i].runId = run_id_gen(1) }

\* The run dispatched for T1 was started, got its evidence, the verdict
\* PASS, its completion and its close, the log holds exactly one
\* RESULT_NOTIFIED, and status.json shows T1 done (the compact entry with
\* lastRunId) and progress 1 / 1 / 0.
HappyEnd ==
    /\ HappyLines("WORKER_RUN_STARTED") # {}
    /\ HappyLines("EVIDENCE_SUBMITTED") # {}
    /\ \E i \in HappyLines("WATCHDOG_VERDICT") : events[i].payload = "PASS"
    /\ HappyLines("WORKER_RUN_COMPLETED") # {}
    /\ HappyLines("RUN_CLOSED") # {}
    /\ Cardinality({ i \in DOMAIN events : events[i].type = "RESULT_NOTIFIED" }) = 1
    /\ statusFile # <<>>
    /\ statusFile.project.progress = [total |-> 1, done |-> 1, blocked |-> 0]
    /\ Len(statusFile.tasks) = 1
    /\ statusFile.tasks[1].taskId = "T1"
    /\ statusFile.tasks[1].state = ""
    /\ statusFile.tasks[1].lastRunId = run_id_gen(1)

InAppendOrder(log) ==
    [i \in 1 .. Len(log) |->
        CHOOSE e \in { log[j] : j \in DOMAIN log } :
            Cardinality({ j \in DOMAIN log : log[j].eventId < e.eventId }) = i - 1]

\* C22: a log reduces to the same Status whatever the physical order of its
\* lines: the log as it lies, its valid events pairwise distinct in
\* (sequenceNumber, eventId), gives the Status of the same events in the
\* order of appending.
C22_ReduceIgnoresLineOrder ==
    reduce_events(events) = reduce_events(InAppendOrder(events))

\* The lines are out of order, two share a sequenceNumber, and the order
\* matters to the fold: a close lies before the intent of its run.
C22_Witness ==
    /\ events # InAppendOrder(events)
    /\ \E i, j \in DOMAIN events :
          i < j /\ events[i].type = "RUN_CLOSED" /\ events[j].type = "WORKER_RUN_INTENT"
                /\ events[i].runId = events[j].runId
                /\ events[j].sequenceNumber < events[i].sequenceNumber
    /\ \E i, j \in DOMAIN events :
          i # j /\ events[i].sequenceNumber = events[j].sequenceNumber

\* ------------------------------------------------------------------ C23

\* The entries of status["tasks"] that are compact: those of the done tasks.
DoneEntries(S) == { i \in DOMAIN S.tasks : S.tasks[i].state = "" }

BlockedEntries(S) == { i \in DOMAIN S.tasks : S.tasks[i].state = "blocked" }

\* C23: in the Status of the log, progress.total is the number of entries
\* of tasks[], progress.done the number of tasks that fold to done (each
\* shown as a compact entry), progress.blocked the number of tasks that fold
\* to blocked (each shown with state blocked), and done + blocked <= total.
C23_ProgressCountsTasks ==
    LET S == reduce_events(events)
        F == fold_lines(events)
        p == S.project.progress
    IN /\ p.total = Len(S.tasks)
       /\ p.done = Cardinality(DoneEntries(S))
       /\ p.done = Cardinality({ t \in DOMAIN F.tasks : F.tasks[t].state = "done" })
       /\ p.blocked = Cardinality(BlockedEntries(S))
       /\ p.blocked = Cardinality({ t \in DOMAIN F.tasks : F.tasks[t].state = "blocked" })
       /\ p.done + p.blocked <= p.total

\* One task done, the other canceled: progress 2 / 1 / 0.
C23_Witness ==
    LET S == reduce_events(events)
        F == fold_lines(events)
    IN /\ S.project.progress = [total |-> 2, done |-> 1, blocked |-> 0]
       /\ \E t \in DOMAIN F.tasks : F.tasks[t].state = "canceled"

\* ------------------------------------------------------------------ C29

\* The line that a step has appended to a log whose lines are in the order
\* of their sequence numbers: the event folded last.
Appended == events'[Len(events')]

\* The event of the last line carries a run that its task, bound to a run
\* before, was not bound to.
ForeignRun(F, e) ==
    /\ e.taskId \in DOMAIN F.tasks
    /\ F.tasks[e.taskId].run_id # ""
    /\ e.runId # ""
    /\ e.runId # F.tasks[e.taskId].run_id

\* C29: a run-bound event that carries a run other than the run its task is
\* bound to leaves the folded task (state, gates, run, per-run status,
\* evidence, verdict, result) as it was, and an event that carries another
\* run changes the run of the task only when it is a WORKER_RUN_INTENT.
C29_ForeignRunEventSkipped ==
    [][ Len(events') = Len(events) + 1 =>
          LET F == fold_lines(events)
              G == fold_lines(events')
              e == Appended
          IN ForeignRun(F, e) =>
               /\ e.type \in RunBoundTypes => G.tasks[e.taskId] = F.tasks[e.taskId]
               /\ G.tasks[e.taskId].run_id # F.tasks[e.taskId].run_id
                     => e.type = "WORKER_RUN_INTENT" /\ G.tasks[e.taskId].run_id = e.runId
      ]_vars

\* A failure of r3 is the last line, after a verdict for r1, and T1 is still
\* bound to r1 and not blocked.
C29_Witness ==
    /\ events # <<>>
    /\ LET e == events[Len(events)]
           F == fold_lines(events)
       IN /\ e.type = "WORKER_RUN_FAILED" /\ e.taskId = "T1" /\ e.runId = "r3"
          /\ F.tasks["T1"].run_id = "r1"
          /\ F.tasks["T1"].last_verdict = "WARN"
          /\ F.tasks["T1"].state # "blocked"

\* ------------------------------------------------------------------ C30

RecomputingTypes ==
    { "WORKER_RUN_COMPLETED", "WORKER_RUN_FAILED", "WORKER_RUN_ABORTED",
      "WATCHDOG_VERDICT", "HUMAN_VERDICT" }

\* The gates of a task once an event has been handled, before the state is
\* recomputed.
GatesHandled(gates, e) ==
    CASE e.type = "WATCHDOG_VERDICT" ->
           (gates \ {"awaiting_verdict"})
             \cup (IF e.payload = "WARN" THEN {"needs_human_review"} ELSE {})
      [] e.type = "HUMAN_VERDICT" /\ e.payload = "PASS" -> gates \ {"needs_human_review"}
      [] OTHER -> gates

\* The state of task g is the one its flags ask for, f being the task
\* before event e was folded.
ByPriority(f, g, e) ==
    LET rs == g.run_status IN
    IF rs.verdict = "BLOCK" \/ rs.failed
    THEN g.state = "blocked" /\ g.gates = {}
    ELSE IF rs.aborted
    THEN g.state = "canceled" /\ g.gates = {}
    ELSE IF rs.completed /\ rs.verdict = "PASS"
    THEN /\ g.state = "done" /\ g.gates = {}
         /\ g.result.quality =
              IF f.result.quality # "" THEN f.result.quality
              ELSE IF e.type = "HUMAN_VERDICT" THEN "warn_override" ELSE "clean"
    ELSE g.state = f.state /\ g.gates = GatesHandled(f.gates, e)

\* C30: once an event that recomputes the state has been folded into its
\* task, the task is blocked when the verdict is BLOCK or the run failed,
\* else canceled when the run was aborted, else done when the run completed
\* with PASS, the quality being clean unless one was recorded before; in
\* these cases no gate is left, and in the remaining case the state and the
\* gates stay as the event left them.
C30_StateByPriority ==
    [][ Len(events') = Len(events) + 1 =>
          LET F == fold_lines(events)
              G == fold_lines(events')
              e == Appended
          IN (e.type \in RecomputingTypes /\ ~ForeignRun(F, e))
               => ByPriority(F.tasks[e.taskId], G.tasks[e.taskId], e)
      ]_vars

\* A run that was aborted, completed and passed: the task is canceled.
C30_Witness ==
    LET F == fold_lines(events)
    IN \E t \in DOMAIN F.tasks :
         /\ F.tasks[t].run_status.aborted /\ F.tasks[t].run_status.completed
         /\ F.tasks[t].run_status.verdict = "PASS" /\ ~F.tasks[t].run_status.failed
         /\ F.tasks[t].state = "canceled"

\* A human passed the run before it completed: done, quality warn_override.
C30_WitnessOverride ==
    LET F == fold_lines(events)
    IN \E t \in DOMAIN F.tasks :
         F.tasks[t].state = "done" /\ F.tasks[t].result.quality = "warn_override"

\* ------------------------------------------------------------------ C24

\* The notifications that the latest tick sent out for a run of a task.
PrintedFor(task_id, run) ==
    { k \in DOMAIN lastTick.printed : lastTick.printed[k] = <<task_id, run>> }

\* The tasks that were done or blocked when the latest tick began.
TerminalBefore ==
    LET pre == reduce_events(PreTick)
    IN { pre.tasks[i] : i \in { j \in DOMAIN pre.tasks : is_result(pre.tasks[j]) } }

\* C24: a tick that returns has, for every task that was done or blocked
\* with no RESULT_NOTIFIED for its last run, appended one RESULT_NOTIFIED and
\* sent one notification, and has, for every task that was done or blocked
\* with a RESULT_NOTIFIED for its last run, appended no RESULT_NOTIFIED and
\* sent no notification.
C24_NotificationAtMostOnce ==
    lastTick.made /\ lastTick.raised = "" =>
      \A e \in TerminalBefore :
         LET run == last_run_id(e)
             added == Notified(events, e.taskId, run) \cap NewLines
         IN IF Notified(PreTick, e.taskId, run) = {}
            THEN Cardinality(added) = 1 /\ Cardinality(PrintedFor(e.taskId, run)) = 1
            ELSE added = {} /\ PrintedFor(e.taskId, run) = {}

\* The part of C24 that holds: one marker and one notification for a result
\* that had no marker, and no second marker for one that had.
C24_MarkerOnceSentWhenNew ==
    lastTick.made /\ lastTick.raised = "" =>
      \A e \in TerminalBefore :
         LET run == last_run_id(e)
             added == Notified(events, e.taskId, run) \cap NewLines
         IN IF Notified(PreTick, e.taskId, run) = {}
            THEN Cardinality(added) = 1 /\ Cardinality(PrintedFor(e.taskId, run)) = 1
            ELSE added = {}

\* ------------------------------------------------------------------ C25

\* The runs that were open when the latest tick began: an intent or a start
\* was seen and no RUN_CLOSED.
OpenBefore ==
    { k \in { <<PreTick[i].taskId, PreTick[i].runId>> :
                i \in { j \in DOMAIN PreTick :
                          PreTick[j].type \in {"WORKER_RUN_INTENT", "WORKER_RUN_STARTED"} } } :
        ~\E i \in DOMAIN PreTick :
            PreTick[i].type = "RUN_CLOSED" /\ <<PreTick[i].taskId, PreTick[i].runId>> = k }

\* The events of a run that end it.
EndingTypes ==
    { "WATCHDOG_VERDICT", "HUMAN_VERDICT", "WORKER_RUN_FAILED", "WORKER_RUN_ABORTED",
      "WORKER_RUN_COMPLETED" }

\* The lines that the latest tick appended for run k with a type and payload.
AddedFor(k, etype, payload) ==
    { i \in NewLines : /\ events[i].type = etype /\ events[i].payload = payload
                       /\ <<events[i].taskId, events[i].runId>> = k }

\* What reconciliation owes to run k, info being what the log said of the
\* run when the tick began.
Reconciled(k, info) ==
    LET baseline == IF info.intent_at # -1 THEN info.intent_at ELSE info.started_at IN
    IF \/ info.verdict = "BLOCK" \/ info.failed \/ info.aborted
       \/ info.completed /\ info.verdict = "PASS"
    THEN \E i \in AddedFor(k, "RUN_CLOSED", "recovered_close") :
            \E j \in DOMAIN PreTick :
               /\ PreTick[j].eventId = events[i].causationId
               /\ <<PreTick[j].taskId, PreTick[j].runId>> = k
               /\ PreTick[j].type \in EndingTypes
    ELSE IF baseline # -1 /\ (lastTick.at - baseline) * 60 >= stale_sec
    THEN \E i \in AddedFor(k, "WORKER_RUN_FAILED", "stale after restart") :
            \E j \in AddedFor(k, "RUN_CLOSED", "stale_after_restart") :
               i < j /\ events[j].causationId = events[i].eventId
    ELSE /\ AddedFor(k, "RUN_CLOSED", "recovered_close") = {}
         /\ AddedFor(k, "RUN_CLOSED", "stale_after_restart") = {}
         /\ AddedFor(k, "WORKER_RUN_FAILED", "stale after restart") = {}

\* C25: after a tick, every run that was open when the tick began and had
\* ended (verdict BLOCK, failed, aborted, or completed with PASS) has got a
\* RUN_CLOSED whose causationId is the id of an ending event of the run;
\* every other one whose intent (else start) was 30 minutes old or older has
\* got WORKER_RUN_FAILED 'stale after restart' and then RUN_CLOSED; for the
\* remaining ones reconciliation has appended nothing.
C25_OpenRunsReconciled ==
    lastTick.made =>
      \A k \in OpenBefore :
         Reconciled(k, run_info(SortEvents(read_events(PreTick).events), k))

\* The same for the ticks that start with no BLOCK verdict in the log.
C25_ReconciledUnlessBlock ==
    (lastTick.made /\ ~\E i \in DOMAIN PreTick :
                         PreTick[i].type = "WATCHDOG_VERDICT" /\ PreTick[i].payload = "BLOCK")
      => C25_OpenRunsReconciled

\* ------------------------------------------------------------------ C26

\* C26: however many ticks have run, the log holds at most one
\* CORRUPTED_LINE_DETECTED and at most one RECOVERY_STARTED event for each
\* line offset, a line that was cut short at the end of the file included.
C26_RecoveryIdempotent ==
    \A i \in DOMAIN events :
       /\ Cardinality(EventsForLine("CORRUPTED_LINE_DETECTED", i)) <= 1
       /\ Cardinality(EventsForLine("RECOVERY_STARTED", i)) <= 1

\* The same for logs in which no line was cut short.
C26_IdempotentUnlessCut ==
    (\A i \in DOMAIN events : json_loads_ok(events[i])) => C26_RecoveryIdempotent

\* ------------------------------------------------------------------ C27

\* floor(now / heartbeatTimeoutSec) for a time in minutes.
Window(t) == (t * 60) \div heartbeat_timeout_sec

ProjectBefore == reduce_events(PreTick).project

\* The latest tick went on to report the lapse: it appended
\* WATCHDOG_UNRESPONSIVE, or failed in building it.
LapseReported ==
    \/ \E i \in NewLines : events[i].type = "WATCHDOG_UNRESPONSIVE"
    \/ lastTick.raised = "TypeError"

\* C28: a tick appends WATCHDOG_UNRESPONSIVE only when the reducer derives a
\* project that is neither halted nor finished from the log the tick began
\* with, and a tick over a lapsed heartbeat of a project that the reducer
\* derives as running does not skip the lapse.
C28_SkipFollowsReducer ==
    lastTick.made =>
      /\ (\E i \in NewLines : events[i].type = "WATCHDOG_UNRESPONSIVE")
            => ~ProjectBefore.halted /\ ProjectBefore.phase # "finished"
      /\ HeartbeatLapsed /\ ProjectBefore.phase = "running" => LapseReported

\* ------------------------------------------------------------------ C31

PickupTypes ==
    << "EVIDENCE_SUBMITTED", "WATCHDOG_VERDICT", "WORKER_RUN_COMPLETED", "RUN_CLOSED" >>

\* The lines that the latest tick appended for the run of an evidence file
\* with the n-th type of the pickup.
PickedUp(file, n) ==
    { i \in NewLines : /\ events[i].type = PickupTypes[n]
                       /\ events[i].taskId = file[1] /\ events[i].runId = file[2] }

\* An EVIDENCE_SUBMITTED for the file was in the log when the latest tick
\* began.
SubmittedBefore(file) ==
    \E i \in DOMAIN PreTick :
       /\ PreTick[i].type = "EVIDENCE_SUBMITTED"
       /\ PreTick[i].taskId = file[1] /\ PreTick[i].runId = file[2]

\* C31: a tick has, for every evidence file that no EVIDENCE_SUBMITTED of the
\* log referred to, appended EVIDENCE_SUBMITTED, WATCHDOG_VERDICT PASS,
\* WORKER_RUN_COMPLETED and RUN_CLOSED for the run, in this order, and has
\* appended none of the four for a file whose EVIDENCE_SUBMITTED was there.
C31_EvidencePickedUpOnce ==
    lastTick.made =>
      \A n \in DOMAIN evidenceFiles :
         LET file == evidenceFiles[n] IN
         IF SubmittedBefore(file)
         THEN \A k \in 1 .. 4 : PickedUp(file, k) = {}
         ELSE \E i \in PickedUp(file, 1), j \in PickedUp(file, 2),
                 k \in PickedUp(file, 3), l \in PickedUp(file, 4) :
                 /\ i < j /\ j < k /\ k < l
                 /\ events[j].payload = "PASS"
                 /\ \A m \in 1 .. 4 : Cardinality(PickedUp(file, m)) = 1

\* The same for the ticks that begin before the run of the file is 30
\* minutes old.
C31_PickedUpWhileYoung ==
    (lastTick.made /\ lastTick.at < 30) => C31_EvidencePickedUpOnce

\* ------------------------------------------------------------------ C32

\* The latest tick read the log while its last line was being written.
ReadPartialLine == lastTick.made /\ "partial" \in DOMAIN lastTick

\* C32: a tick that read the log while another process was writing its last
\* line has appended no CORRUPTED_LINE_DETECTED and no RECOVERY_STARTED for
\* that line, and the Status it publishes is not degraded on its account.
C32_PartialLineNotReported ==
    ReadPartialLine =>
      /\ EventsForLine("CORRUPTED_LINE_DETECTED", lastTick.before) \cap NewLines = {}
      /\ EventsForLine("RECOVERY_STARTED", lastTick.before) \cap NewLines = {}
      /\ lastTick.raised = "" => statusFile.project.degradedReason # "recovery_in_progress"

\* ------------------------------------------------------------------ C33

\* The lines of a log that decode.
Decoded(log) == { i \in DOMAIN log : json_loads_ok(log[i]) }

\* C33: an append_event call that found no sequence.json and appended has
\* given its event a sequenceNumber greater than every sequenceNumber that
\* the log held.
C33_SequenceRecoveredFromLog ==
    (lastCall.made /\ lastCall.status = "appended" /\ ~lastCall.before.sequence.exists) =>
       \A i \in Decoded(lastCall.before.events) :
          lastCall.before.events[i].sequenceNumber < lastCall.event[1].sequenceNumber

\* The same for calls that found a log whose lines all decode.
C33_RecoveredUnlessCut ==
    (lastCall.made /\ Decoded(lastCall.before.events) = DOMAIN lastCall.before.events)
    => C33_SequenceRecoveredFromLog

\* ------------------------------------------------------------------ C34

\* No writer died inside the write of its line: every line is whole.
WholeLines == \A i \in DOMAIN events : json_loads_ok(events[i])

\* C34: whatever writers died after their line was synced or after the
\* index was saved, the log holds no two records with one idempotencyKey
\* and no two records with one sequenceNumber.
C34_CrashSafeAppend ==
    WholeLines =>
      \A i, j \in DOMAIN events :
         i # j => /\ events[i].idempotencyKey # events[j].idempotencyKey
                  /\ events[i].sequenceNumber # events[j].sequenceNumber

\* ------------------------------------------------------------------ C39

\* The readable records of the log with a key.
ReadableWith(key) ==
    { i \in DOMAIN events : /\ json_loads_ok(events[i]) /\ verify_crc32(events[i])
                            /\ events[i].idempotencyKey = key }

\* C39: the event of a call that returned "appended" is among the events
\* read_events returns, and every key of idempotency-index.json that such a
\* call has registered has exactly one readable record in the log.
C39_AppendedIsReadable ==
    lastCall.made /\ lastCall.status = "appended" =>
       /\ \E i \in ReadableWith(lastCall.input.idempotencyKey) :
             events[i].eventId = lastCall.event[1].eventId
       /\ Cardinality(ReadableWith(lastCall.input.idempotencyKey)) = 1

\* The same as long as no writer has died.
C39_ReadableUnlessCrashed ==
    nEmits = 0 => C39_AppendedIsReadable

\* ------------------------------------------------------------------ C35

\* The lines the last tick (or pair of ticks) added that dispatch a task.
AutoDispatched(task_id) ==
    { i \in NewLines : /\ events[i].type = "WORKER_RUN_INTENT"
                       /\ events[i].taskId = task_id
                       /\ events[i].payload = "auto_dispatch" }

MultipleOpenRuns(log) == reduce_events(log).project.degradedReason = "multiple_open_runs"

\* C35: ticks, overlapping or not, dispatch a pending task once: the
\* auto_dispatch intents they add for a task all name one run, and they do
\* not bring the project to degraded / multiple_open_runs.
C35_ConcurrentTicksDispatchOnce ==
    lastTick.made =>
       /\ \A task_id \in { events[i].taskId : i \in NewLines } :
             \A i, j \in AutoDispatched(task_id) : events[i].runId = events[j].runId
       /\ ~MultipleOpenRuns(PreTick) => ~MultipleOpenRuns(events)

\* A run was announced before the tick.
RunBefore == \E i \in DOMAIN PreTick : PreTick[i].type = "WORKER_RUN_INTENT"

\* The same for a tick that no other tick overlaps, on a log without runs.
C35_DispatchOnceAlone ==
    (lastTick.made /\ "overlapped" \notin DOMAIN lastTick /\ ~RunBefore)
    => C35_ConcurrentTicksDispatchOnce

\* ------------------------------------------------------------------ C36

\* The lines of run k that the latest tick appended with one of the types.
AddedOf(k, types) ==
    { i \in NewLines : events[i].type \in types /\ <<events[i].taskId, events[i].runId>> = k }

\* Run k was dispatched, and its intent and its start were younger than
\* workerTimeoutMinutes when the tick began.
Young(k) ==
    LET intent_at  == first_at(PreTick, k, "WORKER_RUN_INTENT")
        started_at == first_at(PreTick, k, "WORKER_RUN_STARTED")
    IN /\ intent_at # -1 /\ lastTick.at - intent_at < cfg.worker_timeout_minutes
       /\ started_at # -1 /\ lastTick.at - started_at < cfg.worker_timeout_minutes

\* The log said nothing of run k but its intent and its start.
NoSignal(k) ==
    \A i \in DOMAIN PreTick :
       <<PreTick[i].taskId, PreTick[i].runId>> = k
       => PreTick[i].type \in {"WORKER_RUN_INTENT", "WORKER_RUN_STARTED"}

\* C36: whatever workerTimeoutMinutes is, a tick appends neither
\* WORKER_RUN_FAILED nor RUN_CLOSED for a dispatched run that is younger than
\* workerTimeoutMinutes and has no terminal signal.
C36_YoungRunLeftAlone ==
    lastTick.made =>
       \A k \in OpenBefore :
          Young(k) /\ NoSignal(k) => AddedOf(k, {"WORKER_RUN_FAILED", "RUN_CLOSED"}) = {}

\* The same for a workerTimeoutMinutes of 30 at most.
C36_YoungLeftAloneUpToThirty ==
    cfg.worker_timeout_minutes * 60 <= stale_sec => C36_YoungRunLeftAlone

\* ------------------------------------------------------------------ C37

\* Run k had completed or handed in its evidence when the tick began, and
\* nothing had judged, failed, aborted or closed it.
AwaitsVerdict(k) ==
    /\ \E i \in DOMAIN PreTick :
          /\ <<PreTick[i].taskId, PreTick[i].runId>> = k
          /\ PreTick[i].type \in {"WORKER_RUN_COMPLETED", "EVIDENCE_SUBMITTED"}
    /\ \A i \in DOMAIN PreTick :
          <<PreTick[i].taskId, PreTick[i].runId>> = k
          => PreTick[i].type \notin {"WATCHDOG_VERDICT", "HUMAN_VERDICT", "WORKER_RUN_FAILED",
                                     "WORKER_RUN_ABORTED", "RUN_CLOSED"}

\* The tick has not failed run k, nor blocked or retried its task.
NotFailedByTick(k) ==
    /\ AddedOf(k, {"WORKER_RUN_FAILED"}) = {}
    /\ \A i \in NewLines : ~(events[i].type = "TASK_RETRIED" /\ events[i].taskId = k[1])
    /\ lastTick.raised = "" => \A e \in EntriesOf(statusFile, k[1]) : e.state # "blocked"

\* C37: a tick appends no WORKER_RUN_FAILED for a run that has completed or
\* handed in its evidence and waits for its verdict, and does not block or
\* retry its task, however old the run is.
C37_AwaitingVerdictNotFailed ==
    lastTick.made => \A k \in OpenBefore : AwaitsVerdict(k) => NotFailedByTick(k)

\* The same for runs younger than workerTimeoutMinutes and than 30 minutes.
C37_NotFailedWhileYoung ==
    lastTick.made =>
       \A k \in OpenBefore :
          /\ AwaitsVerdict(k) /\ Young(k)
          /\ (lastTick.at - first_at(PreTick, k, "WORKER_RUN_INTENT")) * 60 < stale_sec
          => NotFailedByTick(k)

\* ------------------------------------------------------------------ C38

\* The project was halted when the latest tick began.
HaltedBefore == reduce_events(PreTick).project.halted

\* C38: a tick on a halted project appends no WORKER_RUN_INTENT, be it an
\* auto-dispatch or an auto-retry.
C38_NoIntentWhileHalted ==
    (lastTick.made /\ HaltedBefore) =>
       \A i \in NewLines : events[i].type # "WORKER_RUN_INTENT"

\* The same with auto-retry switched off.
C38_NoIntentWhileHaltedRetryOff ==
    cfg.max_retries <= 0 => C38_NoIntentWhileHalted

\* ------------------------------------------------------------------ C40

CloseRuns == { <<"T1", run_id_gen(n)>> : n \in 1 .. 3 }

\* The lines of run k with a type.
RunLines(k, etype) ==
    { i \in DOMAIN events : events[i].type = etype /\ <<events[i].taskId, events[i].runId>> = k }

\* The reducer counts run k among the open runs of its task.
CountedOpen(k) ==
    LET open_runs == fold_lines(events).open_runs
    IN k[1] \in DOMAIN open_runs /\ \E i \in DOMAIN open_runs[k[1]] : open_runs[k[1]][i] = k[2]

\* Run k was announced early enough for the clock to see it 30 minutes old.
AnnouncedInTime(k) ==
    \E i \in RunLines(k, "WORKER_RUN_INTENT") : events[i].at * 60 + stale_sec <= MaxTimeClose * 60

ClosedRun(k) == RunLines(k, "RUN_CLOSED") # {} /\ ~CountedOpen(k)

\* C40: with the loop ticking and the clock advancing, every run that is
\* announced gets its RUN_CLOSED in the end and the reducer no longer counts
\* it as open.
C40_OpenRunsEventuallyClosed ==
    \A k \in CloseRuns : AnnouncedInTime(k) ~> ClosedRun(k)

\* The same as long as no BLOCK verdict is written.
C40_ClosedUnlessBlock ==
    \/ <>(\E i \in DOMAIN events : events[i].type = "WATCHDOG_VERDICT" /\ events[i].payload = "BLOCK")
    \/ C40_OpenRunsEventuallyClosed

====
